---- MODULE Spec2Model ----
(***************************************************************************)
(* Ship management system: the maintenance scheduling engine               *)
(* (src/src/services/MaintenanceService.js), the Ship, Route and           *)
(* Maintenance documents it reads and writes, and the handlers that change *)
(* them.                                                                   *)
(*                                                                         *)
(* Numbers.  A JavaScript value is a record with a kind k:                 *)
(*   "num"  the rational n/d (d > 0, lowest terms),                        *)
(*   "inf"  +Infinity (n = 1) or -Infinity (n = -1),                       *)
(*   "nan"  NaN, "null" null, "undef" undefined.                           *)
(* Arithmetic is exact: the code's IEEE doubles are modelled by rationals. *)
(* Dates are numbers of hours; the code's division of a millisecond        *)
(* difference by 1000*60*60 is therefore the plain difference, and by      *)
(* 1000*60*60*24 a division by HoursPerDay.                                *)
(***************************************************************************)
EXTENDS Integers, Sequences, FiniteSets, TLC

VARIABLES
    now,        \* the clock (Date.now()), in hours
    ship,       \* the Ship document (one ship id), or its absence
    routes,     \* the Route collection: id -> document (ids are 1..Len)
    routeInput, \* for each route, the weather.average its creator passed in
    maint,      \* the Maintenance collection: id -> document (ids are 1..Len)
    lastResult, \* what the last call of a service method returned or threw
    call,       \* the last call of a pure engine function: name, arguments, result
    prevCall,   \* the call before it
    pending     \* for each caller, its scheduleMaintenance call in flight

vars == <<now, ship, routes, routeInput, maint, lastResult, call, prevCall, pending>>

----------------------------------------------------------------------------
(* JavaScript numbers *)

Abs(i) == IF i < 0 THEN -i ELSE i

RECURSIVE GCD(_, _)
GCD(a, b) == IF b = 0 THEN a ELSE GCD(b, a % b)

Num(n, d) ==
    LET s == IF d < 0 THEN -1 ELSE 1
        g == GCD(Abs(n), Abs(d))
    IN  [k |-> "num", n |-> (s * n) \div g, d |-> (s * d) \div g]

Int2Num(i) == [k |-> "num", n |-> i, d |-> 1]
NaN == [k |-> "nan", n |-> 0, d |-> 1]
Inf(s) == [k |-> "inf", n |-> s, d |-> 1]
Null == [k |-> "null", n |-> 0, d |-> 1]
Undefined == [k |-> "undef", n |-> 0, d |-> 1]

IsNum(x) == x.k = "num"
Sign(x) == IF x.n > 0 THEN 1 ELSE IF x.n < 0 THEN -1 ELSE 0

\* ToNumber: null is 0, undefined is NaN
ToNumber(x) ==
    CASE x.k = "null" -> Int2Num(0)
      [] x.k = "undef" -> NaN
      [] OTHER -> x

JsAdd(a, b) ==
    LET x == ToNumber(a)
        y == ToNumber(b)
    IN  CASE x.k = "nan" \/ y.k = "nan" -> NaN
          [] x.k = "inf" /\ y.k = "inf" -> IF x.n = y.n THEN x ELSE NaN
          [] x.k = "inf" -> x
          [] y.k = "inf" -> y
          [] OTHER -> Num(x.n * y.d + y.n * x.d, x.d * y.d)

JsNeg(a) ==
    LET x == ToNumber(a)
    IN  CASE x.k = "nan" -> NaN
          [] x.k = "inf" -> Inf(-x.n)
          [] OTHER -> Num(-x.n, x.d)

JsSub(a, b) == JsAdd(a, JsNeg(b))

JsMul(a, b) ==
    LET x == ToNumber(a)
        y == ToNumber(b)
    IN  CASE x.k = "nan" \/ y.k = "nan" -> NaN
          [] x.k = "inf" \/ y.k = "inf" ->
                IF Sign(x) * Sign(y) = 0 THEN NaN ELSE Inf(Sign(x) * Sign(y))
          [] OTHER -> Num(x.n * y.n, x.d * y.d)

JsDiv(a, b) ==
    LET x == ToNumber(a)
        y == ToNumber(b)
    IN  CASE x.k = "nan" \/ y.k = "nan" -> NaN
          [] x.k = "inf" /\ y.k = "inf" -> NaN
          [] x.k = "inf" -> Inf(IF Sign(y) < 0 THEN -x.n ELSE x.n)
          [] y.k = "inf" -> Int2Num(0)
          [] y.n = 0 -> IF x.n = 0 THEN NaN ELSE Inf(Sign(x))
          [] OTHER -> Num(x.n * y.d, x.d * y.n)

\* a < b on numbers; any comparison with NaN is false
JsLt(a, b) ==
    LET x == ToNumber(a)
        y == ToNumber(b)
    IN  CASE x.k = "nan" \/ y.k = "nan" -> FALSE
          [] x.k = "inf" /\ y.k = "inf" -> x.n < y.n
          [] x.k = "inf" -> x.n < 0
          [] y.k = "inf" -> y.n > 0
          [] OTHER -> x.n * y.d < y.n * x.d

JsGt(a, b) == JsLt(b, a)
JsLe(a, b) == JsLt(a, b) \/ (ToNumber(a).k # "nan" /\ ToNumber(a) = ToNumber(b))

\* Math.min, Math.max: NaN when an argument is NaN
MathMin(a, b) ==
    LET x == ToNumber(a)
        y == ToNumber(b)
    IN  IF x.k = "nan" \/ y.k = "nan" THEN NaN ELSE IF JsLt(y, x) THEN y ELSE x

MathMax(a, b) ==
    LET x == ToNumber(a)
        y == ToNumber(b)
    IN  IF x.k = "nan" \/ y.k = "nan" THEN NaN ELSE IF JsLt(x, y) THEN y ELSE x

MathAbs(a) ==
    LET x == ToNumber(a)
    IN  CASE x.k = "nan" -> NaN
          [] x.k = "inf" -> Inf(1)
          [] OTHER -> Num(Abs(x.n), x.d)

\* Math.round: the nearest integer, a half rounded towards +Infinity
MathRound(a) ==
    LET x == ToNumber(a)
    IN  IF x.k # "num" THEN x ELSE Int2Num((2 * x.n + x.d) \div (2 * x.d))

\* a % b for an integer a >= 0 and an integer b > 0
JsMod(a, b) ==
    LET x == ToNumber(a)
    IN  IF x.k = "num" /\ x.d = 1 /\ x.n >= 0 THEN Int2Num(x.n % b) ELSE NaN

\* a number within [0, 1]
InUnit(x) == IsNum(x) /\ x.n >= 0 /\ x.n <= x.d

----------------------------------------------------------------------------
(* JavaScript objects and arrays *)

Arr(items) == [k |-> "array", items |-> items]

\* !x for the values the engine tests: null and undefined are falsy, objects
\* and arrays (also the empty array) are truthy
Falsy(x) == x.k \in {"null", "undef"}

\* what a thrown TypeError (a property read of null or undefined) leaves as result
TypeError == [k |-> "TypeError", n |-> 0, d |-> 1]

\* Array.prototype.filter
Filter(s, Test(_)) == SelectSeq(s, Test)

\* Array.prototype.slice(0, n)
Slice(s, n) == IF Len(s) <= n THEN s ELSE SubSeq(s, 1, n)

RECURSIVE InsertDesc(_, _)
\* the keyed element x put into s (sorted by key descending) behind every
\* element whose key is not smaller: equal keys keep their order
\* (Array.prototype.sort is stable)
InsertDesc(s, x) ==
    IF s = <<>> THEN <<x>>
    ELSE IF JsLt(Head(s).key, x.key) THEN <<x>> \o s
    ELSE <<Head(s)>> \o InsertDesc(Tail(s), x)

RECURSIVE SortKeyed(_)
SortKeyed(s) ==
    IF s = <<>> THEN <<>>
    ELSE InsertDesc(SortKeyed(SubSeq(s, 1, Len(s) - 1)), s[Len(s)])

\* s.sort((a, b) => Key(b) - Key(a))
SortDesc(s, Key(_)) ==
    LET keyed == SortKeyed([i \in 1..Len(s) |-> [key |-> Key(s[i]), val |-> s[i]]])
    IN  [i \in 1..Len(s) |-> keyed[i].val]

RECURSIVE SumFrom(_, _)
SumFrom(terms, init) ==
    IF terms = <<>> THEN init
    ELSE SumFrom(Tail(terms), JsAdd(init, Head(terms)))

\* s.reduce((sum, x) => sum + Term(x), init)
Reduce(s, Term(_), init) == SumFrom([i \in 1..Len(s) |-> Term(s[i])], init)

----------------------------------------------------------------------------
(* MaintenanceService: the engine's pure functions *)

RecentRoutes == 10
EngineCycle == 5000
BaseInterval == 180
MinInterval == 30
OilChangeHours == 4000
BaseCost == 1000
LaborRate == 50
HoursPerDay == 24

ActualArrival(r) == r.actualArrival

\* ship.routes.length of a ship without a routes array throws
calculateEngineHours(s) ==
    IF Falsy(s.routes) THEN TypeError
    ELSE [total |-> s.engineHours,
          sinceLastMaintenance |-> JsMod(s.engineHours, EngineCycle),
          hoursPerDay |->
             IF Len(s.routes.items) > 0
             THEN JsDiv(s.engineHours, Int2Num(Len(s.routes.items) * 30))
             ELSE Int2Num(0)]

NoIntensity ==
    [k |-> "object", averageDistance |-> Int2Num(0), averageSpeed |-> Int2Num(0),
     routesPerMonth |-> Int2Num(0)]

IsCompleted(r) == r.status = "COMPLETED"
RouteDistance(r) == r.distance
RouteSpeed(r) == JsDiv(r.distance, JsSub(r.actualArrival, r.actualDeparture))

calculateRouteIntensity(rs) ==
    IF Falsy(rs) \/ Len(rs.items) = 0 THEN NoIntensity
    ELSE LET recentRoutes ==
                Slice(SortDesc(Filter(rs.items, IsCompleted), ActualArrival), RecentRoutes)
             count == Int2Num(Len(recentRoutes))
         IN  IF Len(recentRoutes) = 0 THEN NoIntensity
             ELSE [k |-> "object",
                   averageDistance |->
                       JsDiv(Reduce(recentRoutes, RouteDistance, Int2Num(0)), count),
                   averageSpeed |->
                       JsDiv(Reduce(recentRoutes, RouteSpeed, Int2Num(0)), count),
                   routesPerMonth |-> JsDiv(count, Int2Num(3))]

\* r.status === 'COMPLETED' && r.weather && r.weather.average: an array has
\* no property "average"
HasWeatherAverage(r) ==
    /\ r.status = "COMPLETED"
    /\ r.weather.k = "object"
    /\ ~Falsy(r.weather.average)

Severity(r) ==
    LET weather == r.weather.average
    IN  JsDiv(JsAdd(JsAdd(JsDiv(weather.windSpeed, Int2Num(50)),
                          JsDiv(weather.waveHeight, Int2Num(10))),
                    JsDiv(MathAbs(JsSub(weather.temperature, Int2Num(20))), Int2Num(40))),
              Int2Num(3))

calculateWeatherImpact(rs) ==
    IF Falsy(rs) \/ Len(rs.items) = 0 THEN Int2Num(0)
    ELSE LET recentRoutes ==
                Slice(SortDesc(Filter(rs.items, HasWeatherAverage), ActualArrival),
                      RecentRoutes)
         IN  IF Len(recentRoutes) = 0 THEN Int2Num(0)
             ELSE JsDiv(Reduce(recentRoutes, Severity, Int2Num(0)),
                        Int2Num(Len(recentRoutes)))

calculateRiskScore(factors) ==
    IF Falsy(factors.routeIntensity) THEN TypeError
    ELSE LET engineHoursScore ==
                MathMin(JsDiv(factors.engineHours.sinceLastMaintenance,
                              Int2Num(EngineCycle)), Int2Num(1))
             routeIntensityScore ==
                MathMin(JsDiv(factors.routeIntensity.routesPerMonth, Int2Num(10)),
                        Int2Num(1))
             weatherImpactScore == factors.weatherImpact
             ageScore ==
                MathMin(JsDiv(factors.lastMaintenanceAge, Int2Num(BaseInterval)),
                        Int2Num(1))
         IN  JsAdd(JsAdd(JsAdd(JsMul(engineHoursScore, Num(4, 10)),
                               JsMul(routeIntensityScore, Num(3, 10))),
                         JsMul(weatherImpactScore, Num(2, 10))),
                   JsMul(ageScore, Num(1, 10)))

\* the interval without its floor of MinInterval days
calculateDaysUntilMaintenance_NoFloor(riskScore) ==
    MathRound(JsMul(Int2Num(BaseInterval), JsSub(Int2Num(1), riskScore)))

calculateDaysUntilMaintenance(riskScore) ==
    MathMax(Int2Num(MinInterval),
            MathRound(JsMul(Int2Num(BaseInterval), JsSub(Int2Num(1), riskScore))))

Task(name, hours) ==
    [name |-> name, estimatedDuration |-> Int2Num(hours), status |-> "PENDING"]

\* the oil change tested against the engine cycle, not the oil-change hours
generateMaintenanceTasks_CycleThreshold(s, factors) ==
    IF Falsy(factors.routeIntensity) THEN TypeError
    ELSE Arr(
        <<Task("Engine Inspection", 4), Task("Hull Inspection", 3),
          Task("Safety Equipment Check", 2)>>
        \o (IF JsGt(factors.engineHours.sinceLastMaintenance, Int2Num(EngineCycle))
            THEN <<Task("Engine Oil Change", 2)>> ELSE <<>>)
        \o (IF JsGt(factors.weatherImpact, Num(7, 10))
            THEN <<Task("Weather Damage Inspection", 3)>> ELSE <<>>)
        \o (IF JsGt(factors.routeIntensity.averageSpeed, Int2Num(20))
            THEN <<Task("Propulsion System Check", 4)>> ELSE <<>>))

\* the conditional tasks as an else-if chain: at most one of them is added
generateMaintenanceTasks_ExclusiveChecks(s, factors) ==
    IF Falsy(factors.routeIntensity) THEN TypeError
    ELSE Arr(
        <<Task("Engine Inspection", 4), Task("Hull Inspection", 3),
          Task("Safety Equipment Check", 2)>>
        \o (IF JsGt(factors.engineHours.sinceLastMaintenance, Int2Num(OilChangeHours))
            THEN <<Task("Engine Oil Change", 2)>>
            ELSE IF JsGt(factors.weatherImpact, Num(7, 10))
            THEN <<Task("Weather Damage Inspection", 3)>>
            ELSE IF JsGt(factors.routeIntensity.averageSpeed, Int2Num(20))
            THEN <<Task("Propulsion System Check", 4)>>
            ELSE <<>>))

\* the propulsion check pushed before the weather inspection
generateMaintenanceTasks_PropulsionFirst(s, factors) ==
    IF Falsy(factors.routeIntensity) THEN TypeError
    ELSE Arr(
        <<Task("Engine Inspection", 4), Task("Hull Inspection", 3),
          Task("Safety Equipment Check", 2)>>
        \o (IF JsGt(factors.engineHours.sinceLastMaintenance, Int2Num(OilChangeHours))
            THEN <<Task("Engine Oil Change", 2)>> ELSE <<>>)
        \o (IF JsGt(factors.routeIntensity.averageSpeed, Int2Num(20))
            THEN <<Task("Propulsion System Check", 4)>> ELSE <<>>)
        \o (IF JsGt(factors.weatherImpact, Num(7, 10))
            THEN <<Task("Weather Damage Inspection", 3)>> ELSE <<>>))

generateMaintenanceTasks(s, factors) ==
    IF Falsy(factors.routeIntensity) THEN TypeError
    ELSE Arr(
        <<Task("Engine Inspection", 4), Task("Hull Inspection", 3),
          Task("Safety Equipment Check", 2)>>
        \o (IF JsGt(factors.engineHours.sinceLastMaintenance, Int2Num(OilChangeHours))
            THEN <<Task("Engine Oil Change", 2)>> ELSE <<>>)
        \o (IF JsGt(factors.weatherImpact, Num(7, 10))
            THEN <<Task("Weather Damage Inspection", 3)>> ELSE <<>>)
        \o (IF JsGt(factors.routeIntensity.averageSpeed, Int2Num(20))
            THEN <<Task("Propulsion System Check", 4)>> ELSE <<>>))

LaborOf(task) == JsMul(task.estimatedDuration, Int2Num(LaborRate))

\* the parts lookup without its default price
PartsOf_NoDefault(task) ==
    CASE task.name = "Engine Oil Change" -> Int2Num(500)
      [] task.name = "Engine Inspection" -> Int2Num(300)
      [] task.name = "Hull Inspection" -> Int2Num(200)
      [] OTHER -> Int2Num(0)

PartsOf(task) ==
    CASE task.name = "Engine Oil Change" -> Int2Num(500)
      [] task.name = "Engine Inspection" -> Int2Num(300)
      [] task.name = "Hull Inspection" -> Int2Num(200)
      [] OTHER -> Int2Num(100)

\* the estimate that charges the base cost only when there are tasks
estimateMaintenanceCost_EmptyIsFree(tasks) ==
    IF Falsy(tasks) \/ Len(tasks.items) = 0 THEN Int2Num(0)
    ELSE LET baseCost == Int2Num(BaseCost)
             laborCost == Reduce(tasks.items, LaborOf, Int2Num(0))
             partsCost == Reduce(tasks.items, PartsOf, Int2Num(0))
         IN  JsAdd(JsAdd(baseCost, laborCost), partsCost)

estimateMaintenanceCost(tasks) ==
    IF Falsy(tasks) \/ Len(tasks.items) = 0 THEN Int2Num(BaseCost)
    ELSE LET baseCost == Int2Num(BaseCost)
             laborCost == Reduce(tasks.items, LaborOf, Int2Num(0))
             partsCost == Reduce(tasks.items, PartsOf, Int2Num(0))
         IN  JsAdd(JsAdd(baseCost, laborCost), partsCost)

----------------------------------------------------------------------------
(* Calls of the engine's pure functions with arguments of the caller's choice *)

MaxTasks == 3
MaxPlainRoutes == 2
RiskGrid == 72

NoCall == [fn |-> "none", args |-> Undefined, ret |-> Undefined]

Average(windSpeed, waveHeight, temperature) ==
    [k |-> "object", windSpeed |-> windSpeed, waveHeight |-> waveHeight,
     temperature |-> temperature]

WeatherObject(average) == [k |-> "object", average |-> average]

\* weather.average readings a caller may pass
SampleAverages ==
    {Average(Int2Num(15), Int2Num(2), Int2Num(20)),
     Average(Int2Num(40), Int2Num(8), Int2Num(15)),
     Average(Int2Num(40), Int2Num(8), Int2Num(45)),
     Average(Int2Num(60), Int2Num(15), Int2Num(-30))}

PlainRoute(status, weather) ==
    [status |-> status, distance |-> Int2Num(1000), actualDeparture |-> Int2Num(0),
     actualArrival |-> Int2Num(48), weather |-> weather]

SampleRoutes ==
    {PlainRoute(st, w) :
        st \in {"COMPLETED", "PLANNED"},
        w \in {WeatherObject(a) : a \in SampleAverages}
              \cup {Undefined, WeatherObject(Undefined), Arr(<<>>)}}

Repeat(x, n) == [i \in 1..n |-> x]

\* route lists: every list of at most MaxPlainRoutes sample routes, and the
\* lists of up to RecentRoutes + 1 equal completed routes
SampleRouteLists ==
    UNION {[1..n -> SampleRoutes] : n \in 0..MaxPlainRoutes}
    \cup {Repeat(PlainRoute("COMPLETED", WeatherObject(a)), n) :
            a \in SampleAverages, n \in 1..(RecentRoutes + 1)}

SampleIntensities ==
    {[k |-> "object", averageDistance |-> Int2Num(1000), averageSpeed |-> sp,
      routesPerMonth |-> rpm] :
        sp \in {Int2Num(0), Int2Num(25)},
        rpm \in {Int2Num(0), Num(10, 3), Int2Num(8), Int2Num(12)}}
    \cup {Null, Undefined}

SampleImpacts ==
    {Int2Num(0), Num(7, 10), Int2Num(1), Null, Undefined}
    \cup {calculateWeatherImpact(Arr(rs)) : rs \in SampleRouteLists}

FactorBundles ==
    [engineHours :
        {[total |-> Int2Num(h), sinceLastMaintenance |-> Int2Num(h % EngineCycle),
          hoursPerDay |-> Int2Num(20)] : h \in {0, 4000, 4800, 9999}},
     routeIntensity : SampleIntensities,
     weatherImpact : SampleImpacts,
     lastMaintenanceAge : {Int2Num(0), Int2Num(150), Int2Num(400)}]

TaskNames ==
    {"Engine Inspection", "Hull Inspection", "Safety Equipment Check",
     "Engine Oil Change", "Deck Repair"}

SampleTasks ==
    {[name |-> nm, estimatedDuration |-> du] :
        nm \in TaskNames, du \in {Int2Num(0), Int2Num(2), Num(5, 2)}}

SampleTaskLists ==
    {Arr(ts) : ts \in UNION {[1..n -> SampleTasks] : n \in 0..MaxTasks}}
    \cup {Null, Undefined}

Called(fn, args, ret) == [fn |-> fn, args |-> args, ret |-> ret]

CallRiskScore ==
    /\ call = NoCall
    /\ \E factors \in FactorBundles :
        call' = Called("calculateRiskScore", factors, calculateRiskScore(factors))
    /\ UNCHANGED <<now, ship, routes, routeInput, maint, lastResult, prevCall, pending>>

CallWeatherImpact ==
    /\ call = NoCall
    /\ \E rs \in SampleRouteLists :
        call' = Called("calculateWeatherImpact", Arr(rs), calculateWeatherImpact(Arr(rs)))
    /\ UNCHANGED <<now, ship, routes, routeInput, maint, lastResult, prevCall, pending>>

CallRouteIntensity ==
    /\ call = NoCall
    /\ \E rs \in SampleRouteLists :
        call' = Called("calculateRouteIntensity", Arr(rs),
                       calculateRouteIntensity(Arr(rs)))
    /\ UNCHANGED <<now, ship, routes, routeInput, maint, lastResult, prevCall, pending>>

CallGenerateTasks ==
    /\ call = NoCall
    /\ \E factors \in FactorBundles :
        call' = Called("generateMaintenanceTasks", factors,
                       generateMaintenanceTasks(Undefined, factors))
    /\ UNCHANGED <<now, ship, routes, routeInput, maint, lastResult, prevCall, pending>>

CallEstimateCost ==
    /\ call = NoCall
    /\ \E tasks \in SampleTaskLists :
        call' = Called("estimateMaintenanceCost", tasks, estimateMaintenanceCost(tasks))
    /\ UNCHANGED <<now, ship, routes, routeInput, maint, lastResult, prevCall, pending>>

\* two calls of calculateDaysUntilMaintenance, one after the other, each with
\* a risk score i/RiskGrid of [0, 1]
CallDays ==
    /\ prevCall = NoCall
    /\ \E i \in 0..RiskGrid :
        call' = Called("calculateDaysUntilMaintenance", Num(i, RiskGrid),
                       calculateDaysUntilMaintenance(Num(i, RiskGrid)))
    /\ prevCall' = call
    /\ UNCHANGED <<now, ship, routes, routeInput, maint, lastResult, pending>>

MaxCallers == 2
Callers == 1..MaxCallers

\* no scheduleMaintenance call of the caller is in flight
Idle == [at |-> "idle"]

NoShip == [exists |-> FALSE]
NoResult == [op |-> "none"]

InitEngine ==
    /\ now = 0
    /\ ship = NoShip
    /\ routes = <<>>
    /\ routeInput = <<>>
    /\ maint = <<>>
    /\ lastResult = NoResult
    /\ call = NoCall
    /\ prevCall = NoCall
    /\ pending = [c \in Callers |-> Idle]

NextEngine ==
    \/ CallRiskScore
    \/ CallWeatherImpact
    \/ CallRouteIntensity
    \/ CallGenerateTasks
    \/ CallEstimateCost

SpecEngine == InitEngine /\ [][NextEngine]_vars

SpecInterval == InitEngine /\ [][CallDays]_vars

----------------------------------------------------------------------------
(* The stored documents and the handlers that change them.  One ship id is  *)
(* modelled; a Route's id is its index in routes, a Maintenance's id its    *)
(* index in maint, a task's _id its index in the record's tasks.            *)

MaxRoutes == 1
MaxMaint == 1
MaxLongTicks == 1
MaxAddedTasks == 1
SixMonths == 4380
ShortStep == 10
LongStep == 4800

\* the instants at which the clock is read: the start and every LongStep
\* hours (200 days) after it; a voyage may also end ShortStep hours after the start
Instants == {i * LongStep : i \in 0..MaxLongTicks}
VoyageInstants == Instants \cup {ShortStep}
EngineHoursInputs == {4800, 9500}
DistanceInputs == {1000}
FuelInputs == {25000}
Statuses == {"SCHEDULED", "IN_PROGRESS", "COMPLETED", "CANCELLED"}
RouteStatuses == {"PLANNED", "IN_PROGRESS", "COMPLETED", "CANCELLED"}

\* obj.name: undefined when the object has no such property
Prop(obj, name) == IF name \in DOMAIN obj THEN obj[name] ELSE Undefined

\* Ship.findById(shipId).populate('maintenanceHistory').populate('routes')
Populated(s) ==
    [engineHours |-> s.engineHours,
     maintenanceHistory |->
        Arr([i \in 1..Len(s.maintenanceHistory) |-> maint[s.maintenanceHistory[i]]]),
     routes |-> Arr([i \in 1..Len(s.routes) |-> routes[s.routes[i]]])]

MaintDate(m) == m.date

predictNextMaintenance(s) ==
    LET hasHistory ==
            ~Falsy(s.maintenanceHistory) /\ Len(s.maintenanceHistory.items) > 0
        lastMaintenance == SortDesc(s.maintenanceHistory.items, MaintDate)[1]
        routesOrNone == IF Falsy(s.routes) THEN Arr(<<>>) ELSE s.routes
        factors ==
            [engineHours |-> calculateEngineHours(s),
             routeIntensity |-> calculateRouteIntensity(routesOrNone),
             weatherImpact |-> calculateWeatherImpact(routesOrNone),
             lastMaintenanceAge |->
                IF hasHistory
                THEN JsDiv(JsSub(Int2Num(now), lastMaintenance.date),
                           Int2Num(HoursPerDay))
                ELSE Int2Num(BaseInterval)]
        riskScore == calculateRiskScore(factors)
        daysUntilMaintenance == calculateDaysUntilMaintenance(riskScore)
    IN  IF factors.engineHours = TypeError THEN TypeError
        ELSE [date |-> JsAdd(Int2Num(now),
                             JsMul(daysUntilMaintenance, Int2Num(HoursPerDay))),
              factors |-> factors,
              riskScore |-> riskScore]

\* a task as the Maintenance schema stores it
StoredTask(t) ==
    [name |-> t.name, estimatedDuration |-> t.estimatedDuration, status |-> t.status,
     actualDuration |-> Undefined]

\* the document Maintenance.create builds in scheduleMaintenance
NewMaintenance(s, nextMaintenance) ==
    [ship |-> 1,
     type |-> "ROUTINE",
     date |-> nextMaintenance.date,
     tasks |-> LET tasks == generateMaintenanceTasks(s, nextMaintenance.factors).items
               IN  [i \in 1..Len(tasks) |-> StoredTask(tasks[i])],
     parts |-> <<>>,
     technicians |-> <<>>,
     cost |-> [estimated |-> estimateMaintenanceCost(Prop(nextMaintenance, "tasks")),
               actual |-> Undefined],
     status |-> "SCHEDULED"]

PartCost(part) == JsMul(part.cost, part.quantity)
TechnicianCost(tech) == JsMul(tech.hours, Int2Num(LaborRate))

calculateTotalCost(m) ==
    JsAdd(IF Len(m.parts) > 0 THEN Reduce(m.parts, PartCost, Int2Num(0)) ELSE Int2Num(0),
          IF Len(m.technicians) > 0
          THEN Reduce(m.technicians, TechnicianCost, Int2Num(0)) ELSE Int2Num(0))

\* POST /ships
CreateShip ==
    /\ ~ship.exists
    /\ ship' = [exists |-> TRUE, engineHours |-> Int2Num(0),
                lastMaintenance |-> Int2Num(now),
                nextMaintenance |-> Int2Num(now + SixMonths),
                maintenanceHistory |-> <<>>, routes |-> <<>>]
    /\ UNCHANGED <<now, routes, routeInput, maint, lastResult, call, prevCall, pending>>

\* PUT /ships/:shipId/engine-hours
UpdateEngineHoursTo(inputs) ==
    \E hours \in inputs :
        /\ ship' = IF ship.exists
                   THEN [ship EXCEPT
                        !.engineHours = Int2Num(hours),
                        !.nextMaintenance =
                            IF hours >= EngineCycle
                            THEN Int2Num(now + (EngineCycle - (hours % EngineCycle)))
                            ELSE @]
                   ELSE ship
        /\ UNCHANGED <<now, routes, routeInput, maint, lastResult, call, prevCall, pending>>

UpdateEngineHours == UpdateEngineHoursTo({4800})

UpdateEngineHoursVoyage == UpdateEngineHoursTo(EngineHoursInputs)

\* what the Route schema keeps of the weather object planRoute passes: the
\* path is an array of readings, the object becomes its one element, and the
\* element keeps none of departure, marine and average
CastWeather(weather) == Arr(<<[timestamp |-> Undefined]>>)

\* RoutePlanningService.planRoute, with at most limit routes stored
PlanRouteUpTo(limit, averages) ==
    \E distance \in DistanceInputs, average \in averages :
        /\ Len(routes) < limit
        /\ IF ship.exists
           THEN /\ routes' = Append(routes,
                        [ship |-> 1, status |-> "PLANNED",
                         distance |-> Int2Num(distance),
                         estimatedDeparture |-> Int2Num(now),
                         estimatedArrival |-> JsAdd(Int2Num(now), Num(distance, 20)),
                         actualDeparture |-> Undefined, actualArrival |-> Undefined,
                         weather |-> CastWeather(WeatherObject(average)),
                         fuelConsumption |-> [estimated |-> Int2Num(30 * distance),
                                              actual |-> Undefined]])
                /\ routeInput' = Append(routeInput, average)
                /\ ship' = [ship EXCEPT !.routes = Append(@, Len(routes) + 1)]
                /\ lastResult' = [op |-> "planRoute", ok |-> TRUE, id |-> Len(routes) + 1]
           ELSE /\ UNCHANGED <<routes, routeInput, ship>>
                /\ lastResult' = [op |-> "planRoute", ok |-> FALSE,
                                  error |-> "Ship not found"]
        /\ UNCHANGED <<now, maint, call, prevCall, pending>>

CalmWeather == {Average(Int2Num(15), Int2Num(2), Int2Num(20))}

PlanRoute == PlanRouteUpTo(MaxRoutes, CalmWeather)

\* what RouteOptimizer.train does when updateAIModel calls it: the class in
\* src defines no train ("absent"); a predictor put in its place may reject
\* or resolve
TrainOutcomes == {"absent", "rejects", "resolves"}

\* the training failure leaves updateAIModel as an exception
updateAIModel_Rethrows(shipFound, train) ==
    IF shipFound /\ train = "resolves" THEN "updated" ELSE "thrown"

\* RoutePlanningService.updateAIModel(route): reading .type of a ship that is
\* not found, calling a train that is absent and a train that rejects all
\* raise inside the try, and the catch logs without throwing
updateAIModel(shipFound, train) ==
    IF shipFound /\ train = "resolves" THEN "updated" ELSE "caught"

\* RoutePlanningService.updateRouteStatus(routeId, status, actualData), with
\* actualData.fuelConsumption as passed (undefined when left out)
UpdateRouteStatusWith(routeId, status, actualFuel) ==
    /\ \E train \in TrainOutcomes :
        IF routeId \notin 1..Len(routes)
        THEN /\ routes' = routes
             /\ lastResult' = [op |-> "updateRouteStatus", ok |-> FALSE,
                               error |-> "Route not found"]
        ELSE IF status = "COMPLETED" /\ updateAIModel(ship.exists, train) = "thrown"
        THEN /\ routes' = routes
             /\ lastResult' = [op |-> "updateRouteStatus", ok |-> FALSE,
                               error |-> "TypeError"]
        ELSE /\ routes' = [routes EXCEPT ![routeId] =
                    [@ EXCEPT
                        !.status = status,
                        !.actualDeparture =
                            IF status = "IN_PROGRESS" THEN Int2Num(now) ELSE @,
                        !.actualArrival =
                            IF status = "COMPLETED" THEN Int2Num(now) ELSE @,
                        !.fuelConsumption.actual =
                            IF status = "COMPLETED" THEN actualFuel ELSE @]]
             /\ lastResult' = [op |-> "updateRouteStatus", ok |-> TRUE, id |-> routeId]
    /\ UNCHANGED <<now, ship, routeInput, maint, call, prevCall, pending>>

UpdateRouteStatusOf(routeId, status, fuel) ==
    UpdateRouteStatusWith(routeId, status, Int2Num(fuel))

UpdateRouteStatus ==
    \E routeId \in 1..(Len(routes) + 1), status \in RouteStatuses, fuel \in FuelInputs :
        UpdateRouteStatusOf(routeId, status, fuel)

\* MaintenanceService.scheduleMaintenance(shipId), with at most limit records
ScheduleMaintenanceUpTo(limit) ==
    /\ Len(maint) < limit
    /\ IF ~ship.exists
       THEN /\ lastResult' = [op |-> "scheduleMaintenance", ok |-> FALSE,
                              error |-> "Ship not found"]
            /\ UNCHANGED <<ship, maint>>
       ELSE LET nextMaintenance == predictNextMaintenance(Populated(ship))
                maintenance == NewMaintenance(Populated(ship), nextMaintenance)
            IN  IF nextMaintenance = TypeError
                THEN /\ lastResult' = [op |-> "scheduleMaintenance", ok |-> FALSE,
                                       error |-> "TypeError"]
                     /\ UNCHANGED <<ship, maint>>
                ELSE IF ~IsNum(maintenance.date)
                THEN \* an invalid Date fails the schema's validation
                     /\ lastResult' = [op |-> "scheduleMaintenance", ok |-> FALSE,
                                       error |-> "ValidationError"]
                     /\ UNCHANGED <<ship, maint>>
                ELSE /\ maint' = Append(maint, maintenance)
                     /\ ship' = [ship EXCEPT
                            !.maintenanceHistory = Append(@, Len(maint) + 1),
                            !.nextMaintenance = maintenance.date]
                     /\ lastResult' = [op |-> "scheduleMaintenance", ok |-> TRUE,
                                       id |-> Len(maint) + 1,
                                       factors |-> nextMaintenance.factors]
    /\ UNCHANGED <<now, routes, routeInput, call, prevCall, pending>>

ScheduleMaintenance == ScheduleMaintenanceUpTo(MaxMaint)

\* any listed id completes every task of the record
CompleteTasks_EveryTask(tasks, completedTasks) ==
    IF completedTasks = <<>> THEN tasks
    ELSE [i \in 1..Len(tasks) |->
            [tasks[i] EXCEPT !.status = "COMPLETED",
                             !.actualDuration = tasks[i].estimatedDuration]]

RECURSIVE CompleteTasks(_, _)
\* completedTasks.forEach(taskId => ...) on the record's tasks
CompleteTasks(tasks, completedTasks) ==
    IF completedTasks = <<>> THEN tasks
    ELSE LET taskId == Head(completedTasks)
         IN  CompleteTasks(
                IF taskId \in 1..Len(tasks)
                THEN [tasks EXCEPT ![taskId] =
                        [@ EXCEPT !.status = "COMPLETED",
                                  !.actualDuration = tasks[taskId].estimatedDuration]]
                ELSE tasks,
                Tail(completedTasks))

\* lists of task ids a caller may pass: none, the first task, every task,
\* an id that names no task, such an id followed by the second task
CompletedInputs(m) ==
    {<<>>, <<1>>, [i \in 1..Len(m.tasks) |-> i], <<Len(m.tasks) + 1>>,
     <<Len(m.tasks) + 1, 2>>}

\* MaintenanceService.updateMaintenanceStatus(maintenanceId, status, completedTasks)
UpdateMaintenanceStatusTo(statuses) ==
    \E maintenanceId \in 1..(Len(maint) + 1), status \in statuses :
        /\ IF maintenanceId \in 1..Len(maint)
           THEN \E completedTasks \in CompletedInputs(maint[maintenanceId]) :
                LET m == maint[maintenanceId]
                    updated == [m EXCEPT
                        !.status = status,
                        !.tasks = CompleteTasks(@, completedTasks)]
                IN  /\ maint' = [maint EXCEPT ![maintenanceId] =
                            IF status = "COMPLETED"
                            THEN [updated EXCEPT
                                    !.cost.actual = calculateTotalCost(updated)]
                            ELSE updated]
                    /\ ship' = IF status = "COMPLETED" /\ ship.exists
                               THEN [ship EXCEPT
                                        !.lastMaintenance = Int2Num(now),
                                        !.engineHours = JsAdd(@, Int2Num(0))]
                               ELSE ship
                    /\ lastResult' = [op |-> "updateMaintenanceStatus", ok |-> TRUE,
                                      id |-> maintenanceId, status |-> status,
                                      completedTasks |-> completedTasks]
           ELSE /\ UNCHANGED <<maint, ship>>
                /\ lastResult' = [op |-> "updateMaintenanceStatus", ok |-> FALSE,
                                  id |-> maintenanceId,
                                  error |-> "Maintenance record not found"]
        /\ UNCHANGED <<now, routes, routeInput, call, prevCall, pending>>

UpdateMaintenanceStatus == UpdateMaintenanceStatusTo(Statuses)

\* task lists a caller may add
AddedTaskInputs == {<<>>, <<[name |-> "Deck Repair", estimatedDuration |-> Int2Num(5)]>>}

\* addMaintenanceTasks that creates the record it does not find
AddMaintenanceTasks_Upsert ==
    \E maintenanceId \in 1..(Len(maint) + 1), tasks \in AddedTaskInputs :
        /\ IF maintenanceId \in 1..Len(maint)
           THEN LET m == maint[maintenanceId]
                    tasksWithStatus ==
                        [i \in 1..Len(tasks) |->
                            StoredTask([name |-> tasks[i].name,
                                        estimatedDuration |-> tasks[i].estimatedDuration,
                                        status |-> "PENDING"])]
                    pushed == m.tasks \o tasksWithStatus
                IN  /\ Cardinality({i \in 1..Len(m.tasks) : m.tasks[i].name = "Deck Repair"})
                          + Len(tasks) <= MaxAddedTasks
                    /\ maint' = [maint EXCEPT ![maintenanceId] =
                            [m EXCEPT
                                !.tasks = pushed,
                                !.cost.estimated = estimateMaintenanceCost(Arr(pushed))]]
                    /\ lastResult' = [op |-> "addMaintenanceTasks", ok |-> TRUE,
                                      id |-> maintenanceId]
           ELSE /\ maint' = Append(maint,
                        [ship |-> 1, type |-> "ROUTINE", date |-> Int2Num(now),
                         tasks |-> <<>>, parts |-> <<>>, technicians |-> <<>>,
                         cost |-> [estimated |-> Int2Num(BaseCost), actual |-> Undefined],
                         status |-> "SCHEDULED"])
                /\ lastResult' = [op |-> "addMaintenanceTasks", ok |-> TRUE,
                                  id |-> maintenanceId]
        /\ UNCHANGED <<now, ship, routes, routeInput, call, prevCall, pending>>

\* the status a caller sent with the task is kept
WithStatus_KeepsGiven(task) ==
    [name |-> task.name, estimatedDuration |-> task.estimatedDuration,
     status |-> IF "status" \in DOMAIN task THEN task.status ELSE "PENDING"]

\* ({ ...task, status: 'PENDING' })
WithStatus(task) ==
    [name |-> task.name, estimatedDuration |-> task.estimatedDuration,
     status |-> "PENDING"]

\* MaintenanceService.addMaintenanceTasks(maintenanceId, tasks), with at most
\* limit tasks added to a record
AddMaintenanceTasksFrom(inputs, limit) ==
    \E maintenanceId \in 1..(Len(maint) + 1), tasks \in inputs :
        /\ IF maintenanceId \in 1..Len(maint)
           THEN LET m == maint[maintenanceId]
                    tasksWithStatus ==
                        [i \in 1..Len(tasks) |-> StoredTask(WithStatus(tasks[i]))]
                    pushed == m.tasks \o tasksWithStatus
                IN  /\ Cardinality({i \in 1..Len(m.tasks) : m.tasks[i].name = "Deck Repair"})
                          + Len(tasks) <= limit
                    /\ maint' = [maint EXCEPT ![maintenanceId] =
                            [m EXCEPT
                                !.tasks = pushed,
                                !.cost.estimated = estimateMaintenanceCost(Arr(pushed))]]
                    /\ lastResult' = [op |-> "addMaintenanceTasks", ok |-> TRUE,
                                      id |-> maintenanceId]
           ELSE /\ maint' = maint
                /\ lastResult' = [op |-> "addMaintenanceTasks", ok |-> FALSE,
                                  id |-> maintenanceId,
                                  error |-> "Maintenance record not found"]
        /\ UNCHANGED <<now, ship, routes, routeInput, call, prevCall, pending>>

AddMaintenanceTasks == AddMaintenanceTasksFrom(AddedTaskInputs, MaxAddedTasks)

MaxPostedTasks == 2

\* bodies of POST /maintenance/:maintenanceId/tasks that pass its validators:
\* names are strings and durations floats >= 0; a status sent along is not
\* looked at
PostedTaskInputs ==
    {<<>>,
     <<[name |-> "Deck Repair", estimatedDuration |-> Int2Num(0)]>>,
     <<[name |-> "Deck Repair", estimatedDuration |-> Num(5, 2),
        status |-> "COMPLETED"]>>,
     <<[name |-> "Deck Repair", estimatedDuration |-> Int2Num(5)],
       [name |-> "Deck Repair", estimatedDuration |-> Int2Num(0),
        status |-> "IN_PROGRESS"]>>}

PostMaintenanceTasks == AddMaintenanceTasksFrom(PostedTaskInputs, MaxPostedTasks)


TickTo(instants) ==
    \E t \in instants :
        /\ t > now
        /\ now' = t
        /\ UNCHANGED <<ship, routes, routeInput, maint, lastResult, call, prevCall, pending>>

Tick == TickTo(Instants)

TickVoyage == TickTo(VoyageInstants)

Init == InitEngine

\* the ship and its maintenance records: every handler that writes them
Next ==
    \/ CreateShip
    \/ UpdateEngineHours
    \/ ScheduleMaintenance
    \/ UpdateMaintenanceStatus
    \/ AddMaintenanceTasks
    \/ Tick

Spec == Init /\ [][Next]_vars

\* the ship and its routes: voyages planned, started and finished between
\* the scheduling calls
NextVoyage ==
    \/ CreateShip
    \/ UpdateEngineHoursVoyage
    \/ PlanRoute
    \/ UpdateRouteStatus
    \/ ScheduleMaintenance
    \/ TickVoyage

SpecVoyage == Init /\ [][NextVoyage]_vars

MaxScheduled == 2

ScheduleAgain == ScheduleMaintenanceUpTo(MaxScheduled)

CompleteMaintenance == UpdateMaintenanceStatusTo({"COMPLETED"})

\* maintenance scheduled again and again for the same ship, the records
\* completed and extended in between
NextSchedule ==
    \/ CreateShip
    \/ ScheduleAgain
    \/ CompleteMaintenance
    \/ AddMaintenanceTasks
    \/ Tick

SpecSchedule == Init /\ [][NextSchedule]_vars

StormRoutes == 10

StormWeather ==
    {Average(Int2Num(40), Int2Num(8), Int2Num(45)),
     Average(Int2Num(15), Int2Num(2), Int2Num(20))}

\* one voyage at a time: the next route is planned when the last is completed
PlanNextVoyage ==
    /\ \A i \in 1..Len(routes) : routes[i].status = "COMPLETED"
    /\ PlanRouteUpTo(StormRoutes, StormWeather)

CompleteVoyage ==
    /\ Len(routes) > 0
    /\ routes[Len(routes)].status = "PLANNED"
    /\ \E fuel \in FuelInputs : UpdateRouteStatusOf(Len(routes), "COMPLETED", fuel)

\* a ship that sails up to StormRoutes voyages, then has maintenance scheduled
NextStorm ==
    \/ CreateShip
    \/ PlanNextVoyage
    \/ CompleteVoyage
    \/ ScheduleMaintenance

SpecStorm == Init /\ [][NextStorm]_vars

\* records scheduled for a ship with and without an oil change due, and
\* tasks posted to them
NextCost ==
    \/ CreateShip
    \/ UpdateEngineHours
    \/ ScheduleAgain
    \/ PostMaintenanceTasks

SpecCost == Init /\ [][NextCost]_vars

\* request bodies of PUT /ships/:shipId: one that leaves engineHours out, and
\* bodies that carry it (the route's validators do not look at the field)
ShipBodies ==
    {[k |-> "object"]}
    \cup {[k |-> "object", engineHours |-> Int2Num(h)] : h \in {-1, 0} \cup EngineHoursInputs}

\* PUT /ships/:shipId: Ship.findByIdAndUpdate(shipId, { $set: req.body },
\* { runValidators: true }); the schema's min: 0 rejects a negative engineHours
UpdateShip ==
    \E body \in ShipBodies :
        /\ ship' = IF ship.exists /\ "engineHours" \in DOMAIN body
                      /\ ~JsLt(body.engineHours, Int2Num(0))
                   THEN [ship EXCEPT !.engineHours = body.engineHours]
                   ELSE ship
        /\ UNCHANGED <<now, routes, routeInput, maint, lastResult, call, prevCall, pending>>

\* every operation on a ship: its engine hours and fields updated, routes
\* planned, maintenance scheduled and completed
NextShip ==
    \/ CreateShip
    \/ UpdateEngineHoursVoyage
    \/ UpdateShip
    \/ PlanRoute
    \/ ScheduleMaintenance
    \/ CompleteMaintenance

SpecShip == Init /\ [][NextShip]_vars

----------------------------------------------------------------------------
(* scheduleMaintenance as the event loop runs it: the handler gives up control
   at each await on the database, and other requests on the same ship run in
   between.  call holds the scheduleMaintenance call in flight: its args are
   what the first await returned, its ret the _id of the record once created. *)

MaxConcurrent == 2

\* DELETE /ships/:shipId
DeleteShip ==
    /\ ship.exists
    /\ ship' = NoShip
    /\ UNCHANGED <<now, routes, routeInput, maint, lastResult, call, prevCall, pending>>

\* POST /ships while nothing refers to an earlier ship, so that the one ship
\* of the model is never taken for a ship deleted before it
CreateShipAnew ==
    /\ maint = <<>>
    /\ routes = <<>>
    /\ call = NoCall
    /\ CreateShip

\* up to the first await: Ship.findById(shipId).populate(...), the check of
\* the ship, and predictNextMaintenance on what was read
ScheduleFind ==
    /\ call = NoCall
    /\ Len(maint) < MaxConcurrent
    /\ IF ~ship.exists
       THEN /\ lastResult' = [op |-> "scheduleMaintenance", ok |-> FALSE,
                              error |-> "Ship not found"]
            /\ UNCHANGED call
       ELSE /\ call' = Called("scheduleMaintenance",
                              [ship |-> Populated(ship),
                               nextMaintenance |->
                                    predictNextMaintenance(Populated(ship))],
                              Undefined)
            /\ UNCHANGED lastResult
    /\ UNCHANGED <<now, ship, routes, routeInput, maint, prevCall, pending>>

\* await Maintenance.create({...}) of the call in flight
ScheduleCreate ==
    /\ call.fn = "scheduleMaintenance"
    /\ call.ret = Undefined
    /\ LET maintenance == NewMaintenance(call.args.ship, call.args.nextMaintenance)
       IN  IF ~IsNum(maintenance.date)
           THEN /\ lastResult' = [op |-> "scheduleMaintenance", ok |-> FALSE,
                                  error |-> "ValidationError"]
                /\ call' = NoCall
                /\ UNCHANGED maint
           ELSE /\ maint' = Append(maint, maintenance)
                /\ call' = [call EXCEPT !.ret = Int2Num(Len(maint) + 1)]
                /\ UNCHANGED lastResult
    /\ UNCHANGED <<now, ship, routes, routeInput, prevCall, pending>>

\* await Ship.findByIdAndUpdate(shipId, { $push: ..., nextMaintenance }), which
\* resolves to null when no ship has the id, and return maintenance
ScheduleAppend ==
    /\ call.fn = "scheduleMaintenance"
    /\ IsNum(call.ret)
    /\ ship' = IF ship.exists
               THEN [ship EXCEPT
                        !.maintenanceHistory = Append(@, call.ret.n),
                        !.nextMaintenance = maint[call.ret.n].date]
               ELSE ship
    /\ lastResult' = [op |-> "scheduleMaintenance", ok |-> TRUE,
                      id |-> call.ret.n,
                      factors |-> call.args.nextMaintenance.factors]
    /\ call' = NoCall
    /\ UNCHANGED <<now, routes, routeInput, maint, prevCall, pending>>

\* one scheduleMaintenance call at a time, with the requests that write the
\* ship running between its awaits
NextConcurrent ==
    \/ CreateShipAnew
    \/ UpdateEngineHoursVoyage
    \/ UpdateShip
    \/ DeleteShip
    \/ ScheduleFind
    \/ ScheduleCreate
    \/ ScheduleAppend

SpecConcurrent == Init /\ [][NextConcurrent]_vars

\* factor bundles on and around the three thresholds of
\* generateMaintenanceTasks
ThresholdBundles ==
    [engineHours :
        {[total |-> Int2Num(h), sinceLastMaintenance |-> Int2Num(h),
          hoursPerDay |-> Int2Num(20)] : h \in {0, 4000, 4001, 4799}},
     routeIntensity :
        {[k |-> "object", averageDistance |-> Int2Num(1000), averageSpeed |-> sp,
          routesPerMonth |-> Int2Num(8)] :
            sp \in {Int2Num(0), Int2Num(20), Num(41, 2), Int2Num(25), NaN}},
     weatherImpact : {Int2Num(0), Num(7, 10), Num(71, 100), Int2Num(1), NaN, Null},
     lastMaintenanceAge : {Int2Num(0), Int2Num(150)}]

CallGenerateTasksNear ==
    /\ call = NoCall
    /\ \E factors \in ThresholdBundles :
        call' = Called("generateMaintenanceTasks", factors,
                       generateMaintenanceTasks(Undefined, factors))
    /\ UNCHANGED <<now, ship, routes, routeInput, maint, lastResult, prevCall, pending>>

SpecTasks == InitEngine /\ [][CallGenerateTasksNear]_vars

\* maintenanceSchema.methods.updateStatus: the status the record holds, and
\* the method returns, after the call
updateStatus(m) ==
    IF Len(m.tasks) = 0 THEN m.status
    ELSE LET totalTasks == Len(m.tasks)
             completedTasks ==
                Cardinality({i \in 1..Len(m.tasks) : m.tasks[i].status = "COMPLETED"})
             inProgressTasks ==
                Cardinality({i \in 1..Len(m.tasks) : m.tasks[i].status = "IN_PROGRESS"})
         IN  IF completedTasks = totalTasks THEN "COMPLETED"
             ELSE IF inProgressTasks > 0 THEN "IN_PROGRESS"
             ELSE m.status

MaxStatusTasks == 3
TaskStatuses == {"PENDING", "IN_PROGRESS", "COMPLETED", "SKIPPED"}

\* records to derive the status of: every prior status with every list of at
\* most MaxStatusTasks task statuses
SampleRecordsOf(n) ==
    {[status |-> st, tasks |-> [i \in 1..n |-> [status |-> ts[i]]]] :
        st \in Statuses, ts \in [1..n -> TaskStatuses]}

CallUpdateStatus ==
    /\ call = NoCall
    /\ \E m \in UNION {SampleRecordsOf(n) : n \in 0..MaxStatusTasks} :
        call' = Called("updateStatus", m, updateStatus(m))
    /\ UNCHANGED <<now, ship, routes, routeInput, maint, lastResult, prevCall, pending>>

SpecStatus == InitEngine /\ [][CallUpdateStatus]_vars

----------------------------------------------------------------------------
(* Several scheduleMaintenance calls on the same ship, each at its own await:
   pending[c].at is "found" once Ship.findById has returned and
   predictNextMaintenance has run, "created" once Maintenance.create has. *)

MaxParallel == 2

\* the ship's list written back from the copy the caller read
PushHistory_FromSnapshot(s, p) == Append(p.history, p.id)

\* $push: { maintenanceHistory: maintenance._id } on the stored ship
PushHistory(s, p) == Append(s.maintenanceHistory, p.id)

\* up to the first await
ScheduleFindBy(c) ==
    /\ pending[c] = Idle
    /\ Len(maint) + Cardinality({d \in Callers : pending[d].at = "found"}) < MaxParallel
    /\ IF ~ship.exists
       THEN /\ lastResult' = [op |-> "scheduleMaintenance", ok |-> FALSE,
                              error |-> "Ship not found"]
            /\ UNCHANGED pending
       ELSE /\ pending' = [pending EXCEPT ![c] =
                    [at |-> "found",
                     ship |-> Populated(ship),
                     history |-> ship.maintenanceHistory,
                     nextMaintenance |-> predictNextMaintenance(Populated(ship))]]
            /\ UNCHANGED lastResult
    /\ UNCHANGED <<now, ship, routes, routeInput, maint, call, prevCall>>

\* await Maintenance.create({...})
ScheduleCreateBy(c) ==
    /\ pending[c].at = "found"
    /\ LET maintenance == NewMaintenance(pending[c].ship, pending[c].nextMaintenance)
       IN  IF ~IsNum(maintenance.date)
           THEN /\ lastResult' = [op |-> "scheduleMaintenance", ok |-> FALSE,
                                  error |-> "ValidationError"]
                /\ pending' = [pending EXCEPT ![c] = Idle]
                /\ UNCHANGED maint
           ELSE /\ maint' = Append(maint, maintenance)
                /\ pending' = [pending EXCEPT ![c] =
                        [at |-> "created", id |-> Len(maint) + 1,
                         history |-> pending[c].history,
                         nextMaintenance |-> pending[c].nextMaintenance]]
                /\ UNCHANGED lastResult
    /\ UNCHANGED <<now, ship, routes, routeInput, call, prevCall>>

\* await Ship.findByIdAndUpdate(shipId, { $push: ..., nextMaintenance }) and
\* return maintenance
ScheduleAppendBy(c) ==
    /\ pending[c].at = "created"
    /\ ship' = IF ship.exists
               THEN [ship EXCEPT
                        !.maintenanceHistory = PushHistory(ship, pending[c]),
                        !.nextMaintenance = maint[pending[c].id].date]
               ELSE ship
    /\ lastResult' = [op |-> "scheduleMaintenance", ok |-> TRUE,
                      id |-> pending[c].id,
                      factors |-> pending[c].nextMaintenance.factors]
    /\ pending' = [pending EXCEPT ![c] = Idle]
    /\ UNCHANGED <<now, routes, routeInput, maint, call, prevCall>>

\* callers scheduling maintenance for the one ship at the same time, while
\* its engine hours are updated and time passes; the ship is never deleted
NextParallel ==
    \/ CreateShip
    \/ UpdateEngineHoursVoyage
    \/ Tick
    \/ \E c \in Callers : ScheduleFindBy(c)
    \/ \E c \in Callers : ScheduleCreateBy(c)
    \/ \E c \in Callers : ScheduleAppendBy(c)

SpecParallel == Init /\ [][NextParallel]_vars

\* ship snapshots a caller may pass to predictNextMaintenance: the routes
\* and the maintenance history each missing, empty or filled
SampleSnapshots ==
    {[engineHours |-> Int2Num(h), routes |-> rs, maintenanceHistory |-> ms] :
        h \in {0, 4800},
        rs \in {Null, Undefined} \cup {Arr(l) : l \in SampleRouteLists},
        ms \in {Null, Undefined, Arr(<<>>), Arr(<<[date |-> Int2Num(-720)]>>)}}

CallPredict ==
    /\ call = NoCall
    /\ \E snapshot \in SampleSnapshots :
        call' = Called("predictNextMaintenance", snapshot,
                       predictNextMaintenance(snapshot))
    /\ UNCHANGED <<now, ship, routes, routeInput, maint, lastResult, prevCall, pending>>

SpecSnapshot == InitEngine /\ [][CallPredict]_vars

----------------------------------------------------------------------------
(* RoutePlanningService: the analytics of completed routes.  Strings are     *)
(* sequences of character codes; the clock's hour 0 is 2024-01-01T00:00.     *)

RECURSIVE RootWithin(_, _, _)
\* the largest r of lo..hi with r * r <= n
RootWithin(lo, hi, n) ==
    IF lo = hi THEN lo
    ELSE LET mid == (lo + hi + 1) \div 2
         IN  IF mid * mid <= n THEN RootWithin(mid, hi, n)
             ELSE RootWithin(lo, mid - 1, n)

\* Math.sqrt: NaN below 0; the exact root of n/d when n * d is a square,
\* otherwise the root cut to a multiple of 1/d
MathSqrt(a) ==
    LET x == ToNumber(a)
    IN  CASE x.k = "nan" -> NaN
          [] x.k = "inf" -> IF x.n > 0 THEN x ELSE NaN
          [] x.n < 0 -> NaN
          [] OTHER -> Num(RootWithin(0, 46340, x.n * x.d), x.d)

\* Math.ceil of a number that is an integer or NaN, divided by an integer
CeilDiv(a, b) ==
    IF IsNum(a) THEN Int2Num((a.n + b - 1) \div b) ELSE NaN

FuelEfficiency(route) ==
    JsMul(JsDiv(JsSub(route.fuelConsumption.estimated, route.fuelConsumption.actual),
                route.fuelConsumption.estimated),
          Int2Num(100))

calculateAverageFuelEfficiency(rs) ==
    IF Len(rs) = 0 THEN Int2Num(0)
    ELSE JsDiv(SumFrom([i \in 1..Len(rs) |-> FuelEfficiency(rs[i])], Int2Num(0)),
               Int2Num(Len(rs)))

Optimization(route) ==
    LET actualDuration == JsSub(route.actualArrival, route.actualDeparture)
        estimatedDuration == JsSub(route.estimatedArrival, route.estimatedDeparture)
    IN  JsMul(JsDiv(JsSub(estimatedDuration, actualDuration), estimatedDuration),
              Int2Num(100))

calculateRouteOptimization(rs) ==
    IF Len(rs) = 0 THEN Int2Num(0)
    ELSE JsDiv(SumFrom([i \in 1..Len(rs) |-> Optimization(rs[i])], Int2Num(0)),
               Int2Num(Len(rs)))

calculatePerformanceScore(route) ==
    LET fuelEfficiency ==
            JsDiv(JsSub(route.fuelConsumption.estimated, route.fuelConsumption.actual),
                  route.fuelConsumption.estimated)
        timeEfficiency ==
            JsDiv(JsSub(route.estimatedArrival, route.estimatedDeparture),
                  JsSub(route.actualArrival, route.actualDeparture))
    IN  JsMul(JsDiv(JsAdd(fuelEfficiency, timeEfficiency), Int2Num(2)), Int2Num(100))

\* y[i], undefined beyond the end of y
At(y, i) == IF i \in 1..Len(y) THEN y[i] ELSE Undefined

calculateCorrelation(x, y) ==
    LET n == Int2Num(Len(x))
        sum_x == SumFrom(x, Int2Num(0))
        sum_y == SumFrom(y, Int2Num(0))
        sum_xy == SumFrom([i \in 1..Len(x) |-> JsMul(x[i], At(y, i))], Int2Num(0))
        sum_xx == SumFrom([i \in 1..Len(x) |-> JsMul(x[i], x[i])], Int2Num(0))
        sum_yy == SumFrom([i \in 1..Len(y) |-> JsMul(y[i], y[i])], Int2Num(0))
    IN  JsDiv(JsSub(JsMul(n, sum_xy), JsMul(sum_x, sum_y)),
              MathSqrt(JsMul(JsSub(JsMul(n, sum_xx), JsMul(sum_x, sum_x)),
                             JsSub(JsMul(n, sum_yy), JsMul(sum_y, sum_y)))))

\* route.weather.average.windSpeed of a route without weather.average throws
NoWeatherAverage(route) == route.weather.k # "object" \/ Falsy(route.weather.average)

analyzeWeatherImpact(rs) ==
    IF \E i \in 1..Len(rs) : NoWeatherAverage(rs[i]) THEN TypeError
    ELSE LET windSpeed == [i \in 1..Len(rs) |-> rs[i].weather.average.windSpeed]
             waveHeight == [i \in 1..Len(rs) |-> rs[i].weather.average.waveHeight]
             performanceScore == [i \in 1..Len(rs) |-> calculatePerformanceScore(rs[i])]
         IN  [k |-> "object",
              windSpeedCorrelation |-> calculateCorrelation(windSpeed, performanceScore),
              waveHeightCorrelation |-> calculateCorrelation(waveHeight, performanceScore)]

IsLeap(y) == y % 4 = 0 /\ (y % 100 # 0 \/ y % 400 = 0)
DaysInYear(y) == IF IsLeap(y) THEN 366 ELSE 365
DaysInMonth(y, m) ==
    IF m = 1 THEN (IF IsLeap(y) THEN 29 ELSE 28)
    ELSE IF m \in {3, 5, 8, 10} THEN 30 ELSE 31

RECURSIVE YearOf(_, _)
\* the year of the day that lies `day` days after 1 January of year y
YearOf(day, y) ==
    IF day < 0 THEN YearOf(day + DaysInYear(y - 1), y - 1)
    ELSE IF day >= DaysInYear(y) THEN YearOf(day - DaysInYear(y), y + 1)
    ELSE [year |-> y, day |-> day]

RECURSIVE MonthOf(_, _, _)
MonthOf(day, y, m) ==
    IF day >= DaysInMonth(y, m) THEN MonthOf(day - DaysInMonth(y, m), y, m + 1)
    ELSE [month |-> m, date |-> day + 1]

\* new Date(t): getFullYear(), getMonth(), getDate(); all NaN for an invalid Date
DateParts(t) ==
    IF ~IsNum(t) THEN [year |-> NaN, month |-> NaN, date |-> NaN]
    ELSE LET y == YearOf(t.n \div (t.d * HoursPerDay), 2024)
             m == MonthOf(y.day, y.year, 0)
         IN  [year |-> Int2Num(y.year), month |-> Int2Num(m.month),
              date |-> Int2Num(m.date)]

RECURSIVE Digits(_)
Digits(n) == IF n < 10 THEN <<48 + n>> ELSE Digits(n \div 10) \o <<48 + (n % 10)>>

\* `${x}` of a non-negative integer or NaN
NumberString(x) == IF IsNum(x) THEN Digits(x.n) ELSE <<78, 97, 78>>

\* the period key of a date: 'YYYY-Wn', 'YYYY-M' or 'YYYY'
PeriodKey(t, timeframe) ==
    LET date == DateParts(t)
    IN  CASE timeframe = "weekly" ->
                NumberString(date.year) \o <<45, 87>> \o NumberString(CeilDiv(date.date, 7))
          [] timeframe = "yearly" -> NumberString(date.year)
          [] OTHER ->
                NumberString(date.year) \o <<45>>
                    \o NumberString(JsAdd(date.month, Int2Num(1)))

RECURSIVE PutInPeriod(_, _, _)
\* periods[key].push(route), the key created behind the others when it is new
PutInPeriod(periods, key, route) ==
    IF periods = <<>> THEN <<[key |-> key, routes |-> <<route>>]>>
    ELSE IF Head(periods).key = key
         THEN <<[Head(periods) EXCEPT !.routes = Append(@, route)]>> \o Tail(periods)
         ELSE <<Head(periods)>> \o PutInPeriod(Tail(periods), key, route)

RECURSIVE GroupInto(_, _, _)
GroupInto(periods, rs, timeframe) ==
    IF rs = <<>> THEN periods
    ELSE GroupInto(PutInPeriod(periods, PeriodKey(Head(rs).actualDeparture, timeframe),
                               Head(rs)),
                   Tail(rs), timeframe)

\* the properties of the periods object in creation order
groupRoutesByTimeframe(rs, timeframe) == GroupInto(<<>>, rs, timeframe)

\* a property name that is an array index: digits only, no leading zero
IsIndexKey(period) ==
    /\ \A i \in 1..Len(period.key) : period.key[i] \in 48..57
    /\ Len(period.key) = 1 \/ period.key[1] # 48

RECURSIVE IndexValue(_)
IndexValue(key) ==
    IF key = <<>> THEN 0 ELSE 10 * IndexValue(SubSeq(key, 1, Len(key) - 1)) + (key[Len(key)] - 48)

IsNameKey(period) == ~IsIndexKey(period)

\* Object.entries: the index keys in ascending numeric order, then the other
\* keys in creation order
ObjectEntries(periods) ==
    LET indexed == SelectSeq(periods, IsIndexKey)
        keyed == SortKeyed([i \in 1..Len(indexed) |->
                    [key |-> Int2Num(-IndexValue(indexed[i].key)), val |-> indexed[i]]])
    IN  [i \in 1..Len(indexed) |-> keyed[i].val] \o SelectSeq(periods, IsNameKey)

ActualFuel(route) == route.fuelConsumption.actual
ActualDuration(route) == JsSub(route.actualArrival, route.actualDeparture)

calculateTrend(periods, metric) ==
    LET entries == ObjectEntries(periods)
        Value(rs) ==
            CASE metric = "fuelConsumption" ->
                    JsDiv(SumFrom([i \in 1..Len(rs) |-> ActualFuel(rs[i])], Int2Num(0)),
                          Int2Num(Len(rs)))
              [] metric = "duration" ->
                    JsDiv(SumFrom([i \in 1..Len(rs) |-> ActualDuration(rs[i])], Int2Num(0)),
                          Int2Num(Len(rs)))
              [] metric = "efficiency" -> calculateAverageFuelEfficiency(rs)
    IN  [i \in 1..Len(entries) |->
            [period |-> entries[i].key, value |-> Value(entries[i].routes)]]

analyzeTrends(rs, timeframe) ==
    LET periods == groupRoutesByTimeframe(rs, timeframe)
    IN  [k |-> "object",
         fuelConsumption |-> calculateTrend(periods, "fuelConsumption"),
         duration |-> calculateTrend(periods, "duration"),
         efficiency |-> calculateTrend(periods, "efficiency")]

----------------------------------------------------------------------------
(* Calls of the analytics functions with arguments of the caller's choice *)

MaxSeries == 3
MaxTrendRoutes == 3

\* number series of at most MaxSeries values
SampleSeries ==
    UNION {[1..n -> {Int2Num(0), Int2Num(1), Int2Num(3)}] : n \in 0..MaxSeries}

\* a completed route as the analytics read it: two days at sea, planned for
\* fifty hours
SailedRoute(departure, fuel, weather) ==
    [status |-> "COMPLETED", distance |-> Int2Num(1000),
     estimatedDeparture |-> Int2Num(departure),
     estimatedArrival |-> Int2Num(departure + 50),
     actualDeparture |-> Int2Num(departure),
     actualArrival |-> Int2Num(departure + 48),
     fuelConsumption |-> [estimated |-> Int2Num(30000), actual |-> Int2Num(fuel)],
     weather |-> weather]

\* departures on 20 Dec 2023, 5 Jan, 20 Jan, 10 Feb and 3 Oct 2024
SampleDepartures == {-288, 96, 456, 960, 6624}

SampleSailedRoutes ==
    {SailedRoute(d, FuelOf, WeatherObject(Average(Int2Num(15), Int2Num(2), Int2Num(20)))) :
        d \in SampleDepartures, FuelOf \in {25000}}

SampleWeatherRoutes ==
    {SailedRoute(96, fuel, w) :
        fuel \in {25000, 33000},
        w \in {WeatherObject(a) : a \in SampleAverages}
              \cup {Undefined, Arr(<<[timestamp |-> Undefined]>>)}}

Timeframes == {"weekly", "monthly", "yearly", "daily"}

CallCorrelation ==
    /\ call = NoCall
    /\ \E x \in SampleSeries, y \in SampleSeries :
        /\ Len(x) = Len(y)
        /\ call' = Called("calculateCorrelation", [x |-> x, y |-> y],
                          calculateCorrelation(x, y))
    /\ UNCHANGED <<now, ship, routes, routeInput, maint, lastResult, prevCall, pending>>

CallAnalyzeWeatherImpact ==
    /\ call = NoCall
    /\ \E n \in 0..2 : \E rs \in [1..n -> SampleWeatherRoutes] :
        call' = Called("analyzeWeatherImpact", Arr(rs), analyzeWeatherImpact(rs))
    /\ UNCHANGED <<now, ship, routes, routeInput, maint, lastResult, prevCall, pending>>

CallAnalyzeTrends ==
    /\ call = NoCall
    /\ \E n \in 0..MaxTrendRoutes : \E rs \in [1..n -> SampleSailedRoutes] :
       \E timeframe \in Timeframes :
        call' = Called("analyzeTrends", [routes |-> rs, timeframe |-> timeframe],
                       analyzeTrends(rs, timeframe))
    /\ UNCHANGED <<now, ship, routes, routeInput, maint, lastResult, prevCall, pending>>

NextAnalytics ==
    \/ CallCorrelation
    \/ CallAnalyzeWeatherImpact
    \/ CallAnalyzeTrends

SpecAnalytics == InitEngine /\ [][NextAnalytics]_vars

----------------------------------------------------------------------------
(* The read operations keyed by the ship's id *)

\* the status filters a caller of GET /maintenance/history may pass
HistoryFilters == {Null, [k |-> "string", value |-> "COMPLETED"]}

\* MaintenanceService.getMaintenanceHistory(shipId, status):
\* Maintenance.find(query).sort('-date'), the ids of the records found
GetMaintenanceHistory ==
    \E status \in HistoryFilters :
        LET Matches(id) == Falsy(status) \/ maint[id].status = status.value
            found == SelectSeq([id \in 1..Len(maint) |-> id], Matches)
            keyed == SortKeyed([i \in 1..Len(found) |->
                        [key |-> maint[found[i]].date, val |-> found[i]]])
        IN  /\ lastResult' = [op |-> "getMaintenanceHistory", ok |-> TRUE,
                              history |-> [i \in 1..Len(found) |-> keyed[i].val]]
            /\ UNCHANGED <<now, ship, routes, routeInput, maint, call, prevCall, pending>>

\* RoutePlanningService.getRouteAnalytics(shipId, timeframe):
\* Route.find({ ship, status: 'COMPLETED' }).sort('-actualArrival'); call
\* keeps the first analytics call the handler makes on what was found
GetRouteAnalytics ==
    \E timeframe \in {"monthly"} :
        LET found == SortDesc(SelectSeq(routes, IsCompleted), ActualArrival)
            weatherImpact == analyzeWeatherImpact(found)
        IN  /\ lastResult' =
                IF weatherImpact = TypeError
                THEN [op |-> "getRouteAnalytics", ok |-> FALSE, error |-> "TypeError"]
                ELSE [op |-> "getRouteAnalytics", ok |-> TRUE,
                      analytics |->
                        [totalRoutes |-> Int2Num(Len(found)),
                         averageFuelEfficiency |-> calculateAverageFuelEfficiency(found),
                         routeOptimization |-> calculateRouteOptimization(found),
                         weatherImpact |-> weatherImpact,
                         trends |-> analyzeTrends(found, timeframe)]]
            /\ call' = Called("calculateAverageFuelEfficiency", found,
                              calculateAverageFuelEfficiency(found))
            /\ UNCHANGED <<now, ship, routes, routeInput, maint, prevCall, pending>>

\* a ship, its voyages and its maintenance, read through the history and the
\* analytics
NextReads ==
    \/ CreateShip
    \/ PlanRoute
    \/ UpdateRouteStatus
    \/ ScheduleMaintenance
    \/ CompleteMaintenance
    \/ GetMaintenanceHistory
    \/ GetRouteAnalytics

SpecReads == Init /\ [][NextReads]_vars

\* PUT /route-plan/:routeId/status: the handler passes no actualData
PutRouteStatus ==
    \E routeId \in 1..(Len(routes) + 1), status \in RouteStatuses :
        UpdateRouteStatusWith(routeId, status, Undefined)

\* the routes of a ship through their life: planned, moved between statuses
\* by the service and by the endpoint, the ship deleted under them
NextRoutes ==
    \/ CreateShipAnew
    \/ DeleteShip
    \/ PlanRoute
    \/ UpdateRouteStatus
    \/ PutRouteStatus
    \/ GetRouteAnalytics
    \/ TickVoyage

SpecRoutes == Init /\ [][NextRoutes]_vars

----------------------------------------------------------------------------
(* What the engine computations leave behind in the objects they are given:
   call.after is the argument as it is once the call has returned. *)

\* the ship after predictNextMaintenance(ship): ship.maintenanceHistory.sort
\* orders the array itself, before anything else is computed; the routes are
\* filtered into new arrays before they are sorted
predictNextMaintenanceLeaves(s) ==
    IF ~Falsy(s.maintenanceHistory) /\ Len(s.maintenanceHistory.items) > 0
    THEN [s EXCEPT !.maintenanceHistory = Arr(SortDesc(@.items, MaintDate))]
    ELSE s

\* the record after calculateTotalCost(): this.cost.actual = totalCost
calculateTotalCostLeaves(m) == [m EXCEPT !.cost.actual = calculateTotalCost(m)]

MaxHistory == 2
HistoryDates == {-720, -240, -24}

\* a route of the snapshot that arrived at the given hour
ArrivedRoute(arrival) ==
    [status |-> "COMPLETED", distance |-> Int2Num(1000),
     actualDeparture |-> Int2Num(arrival - 48), actualArrival |-> Int2Num(arrival),
     weather |-> WeatherObject(Average(Int2Num(15), Int2Num(2), Int2Num(20)))]

\* snapshots whose history and routes are in every order of their dates
OrderedSnapshots ==
    {[engineHours |-> Int2Num(h), routes |-> Arr(rs), maintenanceHistory |-> Arr(ms)] :
        h \in {0, 4800, 9500},
        rs \in {<<>>, <<ArrivedRoute(48), ArrivedRoute(96)>>,
                <<ArrivedRoute(96), ArrivedRoute(48)>>},
        ms \in UNION {[1..n -> {[date |-> Int2Num(d)] : d \in HistoryDates}] :
                        n \in 0..MaxHistory}}

\* maintenance records with and without parts, technicians and an actual cost
CostedRecords ==
    {[parts |-> ps, technicians |-> ts,
      cost |-> [estimated |-> Int2Num(BaseCost), actual |-> actual]] :
        ps \in {<<>>, <<[cost |-> Int2Num(100), quantity |-> Int2Num(2)]>>},
        ts \in {<<>>, <<[hours |-> Int2Num(8)]>>},
        actual \in {Undefined, Int2Num(0), Int2Num(600)}}

CallPredictOn ==
    /\ call = NoCall
    /\ \E snapshot \in OrderedSnapshots :
        call' = [fn |-> "predictNextMaintenance", args |-> snapshot,
                 ret |-> predictNextMaintenance(snapshot),
                 after |-> predictNextMaintenanceLeaves(snapshot)]
    /\ UNCHANGED <<now, ship, routes, routeInput, maint, lastResult, prevCall, pending>>

CallCalculateTotalCost ==
    /\ call = NoCall
    /\ \E m \in CostedRecords :
        call' = [fn |-> "calculateTotalCost", args |-> m,
                 ret |-> calculateTotalCost(m),
                 after |-> calculateTotalCostLeaves(m)]
    /\ UNCHANGED <<now, ship, routes, routeInput, maint, lastResult, prevCall, pending>>

NextFrame ==
    \/ CallPredictOn
    \/ CallCalculateTotalCost

SpecFrame == InitEngine /\ [][NextFrame]_vars

----------------------------------------------------------------------------
(* RoutePlanningService.analyzeWeatherImpactByShip on the routes its query
   returns: completed routes that carry weather.average, newest arrival first.
   Math.random() is a draw from RandomDraws, one per route. *)

RandomDraws == {Int2Num(0), Num(1, 2), Num(99, 100)}

calculateActualDistance(route, random) ==
    JsMul(route.distance, JsAdd(Int2Num(1), JsMul(random, Num(1, 5))))

calculateRouteDeviation(route, random) ==
    MathAbs(JsSub(calculateActualDistance(route, random), route.distance))

summarizeWeatherCondition(weather) ==
    IF Falsy(weather) THEN "Unknown"
    ELSE IF JsGt(weather.windSpeed, Int2Num(15)) THEN "Strong Winds"
    ELSE IF JsGt(weather.waveHeight, Int2Num(3)) THEN "High Waves"
    ELSE IF JsGt(MathAbs(JsSub(weather.temperature, Int2Num(20))), Int2Num(15))
    THEN "Extreme Temperature"
    ELSE "Moderate"

calculateTemperatureEffect(rs) ==
    IF Len(rs) = 0 THEN Int2Num(0)
    ELSE LET temperatureDeviations ==
                [i \in 1..Len(rs) |->
                    MathAbs(JsSub(rs[i].weather.average.temperature, Int2Num(20)))]
             avgDeviation ==
                JsDiv(SumFrom(temperatureDeviations, Int2Num(0)), Int2Num(Len(rs)))
         IN  JsMul(JsDiv(avgDeviation, Int2Num(40)), Int2Num(100))

calculateWeatherSeverity(weather) ==
    IF Falsy(weather) THEN Int2Num(0)
    ELSE LET windFactor == JsDiv(weather.windSpeed, Int2Num(50))
             waveFactor == JsDiv(weather.waveHeight, Int2Num(10))
             tempFactor ==
                JsDiv(MathAbs(JsSub(weather.temperature, Int2Num(20))), Int2Num(40))
         IN  JsDiv(JsAdd(JsAdd(windFactor, waveFactor), tempFactor), Int2Num(3))

generateWeatherRecommendations(impacts) ==
    LET avgImpact ==
            JsDiv(SumFrom([i \in 1..Len(impacts) |-> impacts[i].weatherSeverity],
                          Int2Num(0)),
                  Int2Num(Len(impacts)))
    IN  (IF JsGt(avgImpact, Num(7, 10))
         THEN <<"Consider alternative routes during severe weather conditions">>
         ELSE <<>>)
        \o (IF JsGt(avgImpact, Num(1, 2))
            THEN <<"Implement weather-based route optimization">> ELSE <<>>)
        \o (IF JsGt(avgImpact, Num(3, 10))
            THEN <<"Monitor fuel consumption patterns in varying weather conditions">>
            ELSE <<>>)

RECURSIVE MaxFrom(_, _)
\* Math.max(...terms), from -Infinity
MaxFrom(terms, init) ==
    IF terms = <<>> THEN init
    ELSE MaxFrom(Tail(terms), MathMax(init, Head(terms)))

analyzeFuelEfficiencyImpact(rs) ==
    IF Len(rs) = 0
    THEN [averageIncrease |-> Int2Num(0), peakIncrease |-> Int2Num(0),
          recommendations |-> <<>>]
    ELSE LET impacts ==
                [i \in 1..Len(rs) |->
                    [weatherSeverity |-> calculateWeatherSeverity(rs[i].weather.average),
                     fuelIncrease |->
                        JsMul(JsDiv(JsSub(rs[i].fuelConsumption.actual,
                                          rs[i].fuelConsumption.estimated),
                                    rs[i].fuelConsumption.estimated),
                              Int2Num(100))]]
             fuelIncreases == [i \in 1..Len(rs) |-> impacts[i].fuelIncrease]
         IN  [averageIncrease |->
                JsDiv(SumFrom(fuelIncreases, Int2Num(0)), Int2Num(Len(rs))),
              peakIncrease |-> MaxFrom(fuelIncreases, Inf(-1)),
              recommendations |-> generateWeatherRecommendations(impacts)]

\* the result for the routes found, with random[i] drawn for the i-th route
analyzeWeatherImpactByShip(rs, random) ==
    IF Len(rs) = 0
    THEN [weatherImpact |-> [windSpeedEffect |-> Int2Num(0),
                             waveHeightEffect |-> Int2Num(0),
                             temperatureEffect |-> Int2Num(0)],
          routeDeviations |-> <<>>,
          fuelEfficiencyImpact |->
            [averageIncrease |-> Int2Num(0), peakIncrease |-> Int2Num(0),
             recommendations |-> <<>>]]
    ELSE LET weatherEffects == analyzeWeatherImpact(rs)
             routeDeviations ==
                [i \in 1..Len(rs) |->
                    [date |-> rs[i].actualDeparture,
                     deviation |-> calculateRouteDeviation(rs[i], random[i]),
                     weatherCondition |->
                        summarizeWeatherCondition(rs[i].weather.average)]]
         IN  [weatherImpact |->
                [windSpeedEffect |->
                    JsMul(weatherEffects.windSpeedCorrelation, Int2Num(100)),
                 waveHeightEffect |->
                    JsMul(weatherEffects.waveHeightCorrelation, Int2Num(100)),
                 temperatureEffect |-> calculateTemperatureEffect(rs)],
              routeDeviations |-> routeDeviations,
              fuelEfficiencyImpact |-> analyzeFuelEfficiencyImpact(rs)]

MaxFound == 2

\* routes the query returns: completed, with weather.average, in calm and in
\* rough weather
FoundRoutes ==
    {SailedRoute(d, fuel, WeatherObject(a)) :
        d \in {96}, fuel \in {25000, 33000},
        a \in {Average(Int2Num(15), Int2Num(2), Int2Num(20)),
               Average(Int2Num(40), Int2Num(8), Int2Num(45))}}

\* two calls of analyzeWeatherImpactByShip, the second over the routes of the
\* first
CallWeatherImpactByShip ==
    /\ prevCall = NoCall
    /\ \E n \in 0..MaxFound : \E rs \in [1..n -> FoundRoutes] :
        \E random \in [1..n -> RandomDraws] :
            /\ call = NoCall \/ call.args = Arr(rs)
            /\ call' = Called("analyzeWeatherImpactByShip", Arr(rs),
                              analyzeWeatherImpactByShip(rs, random))
    /\ prevCall' = call
    /\ UNCHANGED <<now, ship, routes, routeInput, maint, lastResult, pending>>

SpecWeather == InitEngine /\ [][CallWeatherImpactByShip]_vars

----------------------------------------------------------------------------
(* Claims *)

NamesOf(tasks) == {tasks[i].name : i \in 1..Len(tasks)}

\* a number that is not negative
NonNegative(x) == IsNum(x) /\ x.n >= 0

\* the call of scheduleMaintenance that ended the step created a record
Scheduled == lastResult.op = "scheduleMaintenance" /\ lastResult.ok

\* C1: for every factor bundle of non-negative numbers, among them the
\* weatherImpact values calculateWeatherImpact produces, calculateRiskScore
\* returns a number of [0, 1].
C1_RiskScoreInUnit ==
    (/\ call.fn = "calculateRiskScore"
     /\ ~Falsy(call.args.routeIntensity)
     /\ NonNegative(call.args.engineHours.sinceLastMaintenance)
     /\ NonNegative(call.args.routeIntensity.routesPerMonth)
     /\ NonNegative(call.args.weatherImpact)
     /\ NonNegative(call.args.lastMaintenanceAge))
    => InUnit(call.ret)

\* C3: calculateRiskScore with routeIntensity or weatherImpact null or absent
\* raises no error and returns a number of [0, 1].
C3_MissingFactorsTolerated ==
    (/\ call.fn = "calculateRiskScore"
     /\ Falsy(call.args.routeIntensity) \/ Falsy(call.args.weatherImpact))
    => InUnit(call.ret)

IsDaysCall(c) == c.fn = "calculateDaysUntilMaintenance"

\* C4: for every risk score of [0, 1] calculateDaysUntilMaintenance returns
\* between 30 and 180 days, and of two calls the one with the higher risk
\* score never returns the longer interval.
C4_IntervalBoundedMonotone ==
    /\ IsDaysCall(call) =>
        /\ IsNum(call.ret)
        /\ JsLe(Int2Num(30), call.ret)
        /\ JsLe(call.ret, Int2Num(180))
    /\ (IsDaysCall(prevCall) /\ IsDaysCall(call) /\ JsLe(prevCall.args, call.args))
        => JsLe(call.ret, prevCall.ret)

\* C4's case: a call with risk 0 answered 180 days, then one with risk 1
\* answered 30 days
C4_Witness ==
    /\ IsDaysCall(prevCall) /\ IsDaysCall(call)
    /\ prevCall.args = Int2Num(0) /\ prevCall.ret = Int2Num(180)
    /\ call.args = Int2Num(1) /\ call.ret = Int2Num(30)

\* C5: the estimated cost of the record scheduleMaintenance created is
\* estimateMaintenanceCost of the tasks generated for that record.
C5_EstimatedCostOfGeneratedTasks ==
    Scheduled =>
        maint[lastResult.id].cost.estimated
            = estimateMaintenanceCost(Arr(maint[lastResult.id].tasks))

IsCostCall == call.fn = "estimateMaintenanceCost"

\* C6: estimateMaintenanceCost returns exactly 1000 for an empty or missing
\* task list and at least 1000 for every list of tasks with durations >= 0.
C6_CostFloor ==
    IsCostCall =>
        IF Falsy(call.args) \/ Len(call.args.items) = 0
        THEN call.ret = Int2Num(1000)
        ELSE (\A i \in 1..Len(call.args.items) :
                NonNegative(call.args.items[i].estimatedDuration))
             => (IsNum(call.ret) /\ JsLe(Int2Num(1000), call.ret))

\* C6's case: a list of tasks, one of them of duration 0, priced above 1000
C6_Witness ==
    /\ IsCostCall
    /\ ~Falsy(call.args)
    /\ Len(call.args.items) = MaxTasks
    /\ call.args.items[1].estimatedDuration = Int2Num(0)
    /\ JsLt(Int2Num(1000), call.ret)

ClaimedParts(name) ==
    IF name = "Engine Oil Change" THEN 500
    ELSE IF name = "Engine Inspection" THEN 300
    ELSE IF name = "Hull Inspection" THEN 200
    ELSE 100

RECURSIVE ClaimedCost(_)
\* 1000 + the sum over the tasks of duration * 50 + the parts cost
ClaimedCost(tasks) ==
    IF tasks = <<>> THEN Int2Num(1000)
    ELSE JsAdd(ClaimedCost(Tail(tasks)),
               JsAdd(JsMul(Head(tasks).estimatedDuration, Int2Num(50)),
                     Int2Num(ClaimedParts(Head(tasks).name))))

SafetyCheckOnly ==
    Arr(<<[name |-> "Safety Equipment Check", estimatedDuration |-> Int2Num(2)]>>)

\* C7: for every task list estimateMaintenanceCost is 1000 + the labor
\* (duration * 50) and the parts cost (500, 300, 200, or 100 for any other
\* name) of every task; one 2-hour 'Safety Equipment Check' costs 1200.
C7_CostFormula ==
    (IsCostCall /\ ~Falsy(call.args)) =>
        /\ call.ret = ClaimedCost(call.args.items)
        /\ call.args = SafetyCheckOnly => call.ret = Int2Num(1200)

\* C7's case: the list of one 2-hour 'Safety Equipment Check' was priced
C7_Witness == IsCostCall /\ call.args = SafetyCheckOnly /\ call.ret = Int2Num(1200)

\* the step created a maintenance record (scheduleMaintenance ran to its end)
RecordCreated == Len(maint') = Len(maint) + 1

\* C2: whatever was scheduled, updated and added before, the record that
\* scheduleMaintenance creates is dated between 30 and 180 days after the
\* moment of the call.
C2_IntervalWithinBounds ==
    [][RecordCreated =>
        LET date == maint'[Len(maint')].date
        IN  /\ JsLe(Int2Num(now + 30 * HoursPerDay), date)
            /\ JsLe(date, Int2Num(now + 180 * HoursPerDay))]_vars

\* C8: scheduleMaintenance for a ship with engineHours 4800 and no routes
\* yields sinceLastMaintenance = 4800 and a task set with 'Engine Oil
\* Change'; and whenever engineHours mod 5000 exceeds 4000 the task is in the
\* set, whatever the ship's routes are.
C8_OilChangeWhenDue ==
    [][RecordCreated =>
        LET tasks == maint'[Len(maint')].tasks
        IN  /\ (ship.engineHours.n % 5000 > 4000)
                => "Engine Oil Change" \in NamesOf(tasks)
            /\ (ship.engineHours = Int2Num(4800) /\ Len(ship.routes) = 0)
                => /\ lastResult'.factors.engineHours.sinceLastMaintenance
                        = Int2Num(4800)
                   /\ "Engine Oil Change" \in NamesOf(tasks)]_vars

\* C8's case: maintenance was scheduled for a ship with engineHours 4800 and
\* no routes, and the record has the oil change
C8_Witness ==
    /\ Scheduled
    /\ Len(ship.routes) = 0
    /\ lastResult.factors.engineHours.total = Int2Num(4800)
    /\ lastResult.factors.engineHours.sinceLastMaintenance = Int2Num(4800)
    /\ "Engine Oil Change" \in NamesOf(maint[lastResult.id].tasks)

\* the route was created with weather.average.windSpeed 40 and waveHeight 8
CreatedInStorm(i) ==
    routeInput[i].windSpeed = Int2Num(40) /\ routeInput[i].waveHeight = Int2Num(8)

\* C9: when the ship's 10 most recent completed routes all have
\* weather.average.windSpeed = 40 and waveHeight = 8, the weatherImpact factor
\* of scheduleMaintenance exceeds 0.7 and the task set includes 'Weather
\* Damage Inspection'.
C9_StormInspection ==
    (/\ Scheduled
     /\ Len(routes) = RecentRoutes
     /\ \A i \in 1..Len(routes) : routes[i].status = "COMPLETED" /\ CreatedInStorm(i))
    => /\ JsGt(lastResult.factors.weatherImpact, Num(7, 10))
       /\ "Weather Damage Inspection" \in NamesOf(maint[lastResult.id].tasks)

ClaimedTransitions ==
    {<<"SCHEDULED", "IN_PROGRESS">>, <<"IN_PROGRESS", "COMPLETED">>,
     <<"IN_PROGRESS", "CANCELLED">>}

\* C10: a record's status changes only along SCHEDULED -> IN_PROGRESS,
\* IN_PROGRESS -> COMPLETED and IN_PROGRESS -> CANCELLED; once COMPLETED or
\* CANCELLED it never changes again.
C10_StatusTransitions ==
    [][\A id \in 1..Len(maint) :
        maint'[id].status # maint[id].status
            => <<maint[id].status, maint'[id].status>> \in ClaimedTransitions]_vars

\* C11: after updateMaintenanceStatus(maintenanceId, 'COMPLETED', ...)
\* succeeds, the owning ship's engineHours is 0 and its lastMaintenance is the
\* completion time.
C11_CompletionResetsShip ==
    [][(CompleteMaintenance /\ lastResult'.ok /\ ship.exists)
        => /\ ship'.engineHours = Int2Num(0)
           /\ ship'.lastMaintenance = Int2Num(now)]_vars

\* the step is a successful updateMaintenanceStatus(id, 'COMPLETED', ...)
MaintenanceReset == CompleteMaintenance /\ lastResult'.ok

\* C12: across engine-hours updates, ship updates, route planning,
\* maintenance scheduling and status updates, the ship's engineHours never
\* decreases except at a maintenance reset.
C12_EngineHoursNeverDecrease ==
    [][(ship.exists /\ ship'.exists /\ ~MaintenanceReset)
        => JsLe(ship.engineHours, ship'.engineHours)]_vars

\* C13: updateMaintenanceStatus(id, status, completedTasks) sets the record's
\* status to the given status, sets the status of exactly the listed tasks to
\* COMPLETED and leaves the status of every other task unchanged; listed ids
\* that match no task change nothing.
C13_StatusUpdateFrame ==
    [][(UpdateMaintenanceStatus /\ lastResult'.ok) =>
        LET id == lastResult'.id
            given == lastResult'.completedTasks
            listed == {given[i] : i \in 1..Len(given)}
            before == maint[id].tasks
            after == maint'[id].tasks
        IN  /\ maint'[id].status = lastResult'.status
            /\ Len(after) = Len(before)
            /\ \A i \in 1..Len(before) :
                after[i].status = IF i \in listed THEN "COMPLETED" ELSE before[i].status
            /\ \A other \in (1..Len(maint)) \ {id} : maint'[other] = maint[other]]_vars

\* C13's case: a SCHEDULED record set IN_PROGRESS with its first task listed
C13_Witness ==
    /\ lastResult.op = "updateMaintenanceStatus" /\ lastResult.ok
    /\ lastResult.status = "IN_PROGRESS"
    /\ lastResult.completedTasks = <<1>>
    /\ maint[lastResult.id].status = "IN_PROGRESS"
    /\ maint[lastResult.id].tasks[1].status = "COMPLETED"
    /\ maint[lastResult.id].tasks[2].status = "PENDING"

\* the id names no stored maintenance record
NoSuchRecord(id) == id \notin 1..Len(maint)

\* the step ended in this error and wrote no ship and no maintenance record
FailsUnchanged(error) ==
    /\ ~lastResult'.ok
    /\ lastResult'.error = error
    /\ UNCHANGED <<ship, maint>>

\* C14: scheduleMaintenance for a ship that does not exist, and
\* updateMaintenanceStatus or addMaintenanceTasks for a maintenance record
\* that does not exist, fail with a 'not found' error and leave every stored
\* ship and maintenance record unchanged.
C14_NotFoundChangesNothing ==
    [][/\ (ScheduleMaintenance /\ ~ship.exists) => FailsUnchanged("Ship not found")
       /\ (UpdateMaintenanceStatus /\ NoSuchRecord(lastResult'.id))
            => FailsUnchanged("Maintenance record not found")
       /\ (AddMaintenanceTasks /\ NoSuchRecord(lastResult'.id))
            => FailsUnchanged("Maintenance record not found")]_vars

\* C14's case: with a ship and a record stored, a call named a record that
\* does not exist and failed
C14_Witness ==
    /\ ship.exists
    /\ Len(maint) = 1
    /\ lastResult.op \in {"updateMaintenanceStatus", "addMaintenanceTasks"}
    /\ ~lastResult.ok
    /\ lastResult.id = 2
    /\ lastResult.error = "Maintenance record not found"

Variance0(x) == \A i \in 1..Len(x) : x[i] = x[1]

\* C18: calculateCorrelation with an input sequence of zero variance (all
\* values equal, one element, or empty) returns the sentinel value and never
\* NaN, so the correlations analyzeWeatherImpact reports are never NaN.
C18_CorrelationNeverNaN ==
    /\ (call.fn = "calculateCorrelation"
            /\ (Variance0(call.args.x) \/ Variance0(call.args.y)))
        => call.ret.k # "nan"
    /\ (call.fn = "analyzeWeatherImpact" /\ call.ret.k = "object")
        => /\ call.ret.windSpeedCorrelation.k # "nan"
           /\ call.ret.waveHeightCorrelation.k # "nan"

RECURSIVE LexLt(_, _)
\* a < b for strings
LexLt(a, b) ==
    IF b = <<>> THEN FALSE
    ELSE IF a = <<>> THEN TRUE
    ELSE IF Head(a) # Head(b) THEN Head(a) < Head(b)
    ELSE LexLt(Tail(a), Tail(b))

Ascending(trend) == \A i \in 1..(Len(trend) - 1) : LexLt(trend[i].period, trend[i + 1].period)

\* the routes as the service supplies them: sorted by actualArrival descending
SuppliedDescending(rs) ==
    \A i \in 1..(Len(rs) - 1) : JsLe(rs[i + 1].actualArrival, rs[i].actualArrival)

\* C19: for every set of completed routes and each timeframe the trend
\* buckets of analyzeTrends / calculateTrend come in ascending order of their
\* period key, whatever the order of the routes.
C19_TrendsAscending ==
    (call.fn = "analyzeTrends" /\ SuppliedDescending(call.args.routes))
    => /\ Ascending(call.ret.fuelConsumption)
       /\ Ascending(call.ret.duration)
       /\ Ascending(call.ret.efficiency)

\* C15: the read operations keyed by a ship id, given the id of a ship that
\* does not exist, report 'Ship not found' rather than an empty list or an
\* all-zero result.
C15_ReadsReportMissingShip ==
    [][((GetMaintenanceHistory \/ GetRouteAnalytics) /\ ~ship.exists)
        => (~lastResult'.ok /\ lastResult'.error = "Ship not found")]_vars

NoCompletedRoute == \A i \in 1..Len(routes) : routes[i].status # "COMPLETED"

\* C17: getRouteAnalytics for a ship with no completed routes returns without
\* error a result whose numeric fields are all 0 (totalRoutes,
\* averageFuelEfficiency, routeOptimization and the weather correlations, none
\* NaN) and whose trends is an empty list.
C17_EmptyAnalyticsAllZero ==
    [][(GetRouteAnalytics /\ ship.exists /\ NoCompletedRoute) =>
        /\ lastResult'.ok
        /\ lastResult'.analytics.totalRoutes = Int2Num(0)
        /\ lastResult'.analytics.averageFuelEfficiency = Int2Num(0)
        /\ lastResult'.analytics.routeOptimization = Int2Num(0)
        /\ lastResult'.analytics.weatherImpact.windSpeedCorrelation = Int2Num(0)
        /\ lastResult'.analytics.weatherImpact.waveHeightCorrelation = Int2Num(0)
        /\ lastResult'.analytics.trends.k = "array"
        /\ lastResult'.analytics.trends.items = <<>>]_vars

\* C16: for an existing ship, predictNextMaintenance and the factor
\* extractors never throw because optional sub-data is missing: null or empty
\* routes, null or empty maintenanceHistory and completed routes without
\* weather.average resolve to the defaults (zeros, 180-day age).
C16_MissingSubDataTolerated ==
    call.fn = "predictNextMaintenance" =>
        /\ call.ret # TypeError
        /\ IsNum(call.ret.date)
        /\ Falsy(call.args.routes) =>
            /\ call.ret.factors.routeIntensity = NoIntensity
            /\ call.ret.factors.weatherImpact = Int2Num(0)
        /\ Falsy(call.args.maintenanceHistory) =>
            call.ret.factors.lastMaintenanceAge = Int2Num(180)

\* C20: whenever a scheduleMaintenance call has finished, the maintenance
\* record it created is referenced in the owning ship's maintenanceHistory,
\* under any interleaving with other requests on the same ship, a deletion or
\* an update of the ship between the creation and the append included.
C20_CreatedRecordReferenced ==
    [][ScheduleAppend =>
        /\ ship'.exists
        /\ \E i \in 1..Len(ship'.maintenanceHistory) :
                ship'.maintenanceHistory[i] = lastResult'.id]_vars

\* some updateRouteStatus(routeId, 'COMPLETED', actualData) step on a stored route
CompletesRoute(routeId) ==
    \E fuel \in {Undefined} \cup {Int2Num(f) : f \in FuelInputs} :
        UpdateRouteStatusWith(routeId, "COMPLETED", fuel)

\* C21: updateRouteStatus(routeId, 'COMPLETED', ...) stores the route as
\* COMPLETED with actualArrival set and returns it even when the predictor is
\* absent or its training call fails (or the ship is gone): the failure never
\* reaches the caller and never keeps the route from being saved.
C21_PredictorFailureContained ==
    [][\A routeId \in 1..Len(routes) :
        CompletesRoute(routeId) =>
            /\ lastResult'.ok
            /\ lastResult'.id = routeId
            /\ routes'[routeId].status = "COMPLETED"
            /\ routes'[routeId].actualArrival = Int2Num(now)]_vars

\* a route was completed while the ship it names was no longer stored
C21_Witness ==
    /\ ~ship.exists
    /\ lastResult.op = "updateRouteStatus"
    /\ lastResult.ok
    /\ routes[lastResult.id].status = "COMPLETED"
    /\ routes[lastResult.id].actualArrival = Int2Num(now)

\* the returned list has a task of the name
Lists(name) == \E i \in 1..Len(call.ret.items) : call.ret.items[i].name = name

\* C22: generateMaintenanceTasks includes 'Engine Oil Change' iff
\* sinceLastMaintenance > 4000, 'Weather Damage Inspection' iff
\* weatherImpact > 0.7 and 'Propulsion System Check' iff
\* routeIntensity.averageSpeed > 20, each decided independently of the others.
C22_ConditionalTasksIndependent ==
    call.fn = "generateMaintenanceTasks" =>
        /\ Lists("Engine Oil Change")
            <=> JsGt(call.args.engineHours.sinceLastMaintenance, Int2Num(4000))
        /\ Lists("Weather Damage Inspection")
            <=> JsGt(call.args.weatherImpact, Num(7, 10))
        /\ Lists("Propulsion System Check")
            <=> JsGt(call.args.routeIntensity.averageSpeed, Int2Num(20))

\* all three conditions met at once, two of them just past the threshold
C22_Witness ==
    /\ call.fn = "generateMaintenanceTasks"
    /\ call.args.engineHours.sinceLastMaintenance = Int2Num(4001)
    /\ call.args.weatherImpact = Num(71, 100)
    /\ call.args.routeIntensity.averageSpeed = Num(41, 2)
    /\ Len(call.ret.items) = 6

\* the conditional tasks the factors call for, in the documented order
ClaimedConditionals(factors) ==
    (IF JsGt(factors.engineHours.sinceLastMaintenance, Int2Num(4000))
     THEN <<[name |-> "Engine Oil Change", estimatedDuration |-> Int2Num(2),
             status |-> "PENDING"]>> ELSE <<>>)
    \o (IF JsGt(factors.weatherImpact, Num(7, 10))
        THEN <<[name |-> "Weather Damage Inspection", estimatedDuration |-> Int2Num(3),
                status |-> "PENDING"]>> ELSE <<>>)
    \o (IF JsGt(factors.routeIntensity.averageSpeed, Int2Num(20))
        THEN <<[name |-> "Propulsion System Check", estimatedDuration |-> Int2Num(4),
                status |-> "PENDING"]>> ELSE <<>>)

\* C23: the list returned by generateMaintenanceTasks starts with Engine
\* Inspection (4h), Hull Inspection (3h), Safety Equipment Check (2h) in that
\* order, followed by the applicable conditional tasks in the order Engine Oil
\* Change, Weather Damage Inspection, Propulsion System Check; every task is
\* PENDING.
C23_BaselineThenConditionals ==
    call.fn = "generateMaintenanceTasks" =>
        /\ call.ret.items =
            <<[name |-> "Engine Inspection", estimatedDuration |-> Int2Num(4),
               status |-> "PENDING"],
              [name |-> "Hull Inspection", estimatedDuration |-> Int2Num(3),
               status |-> "PENDING"],
              [name |-> "Safety Equipment Check", estimatedDuration |-> Int2Num(2),
               status |-> "PENDING"]>>
            \o ClaimedConditionals(call.args)
        /\ \A i \in 1..Len(call.ret.items) : call.ret.items[i].status = "PENDING"

\* weather inspection and propulsion check both returned, without the oil change
C23_Witness ==
    /\ call.fn = "generateMaintenanceTasks"
    /\ Len(call.ret.items) = 5
    /\ call.ret.items[4].name = "Weather Damage Inspection"
    /\ call.ret.items[5].name = "Propulsion System Check"

AllTasksCompleted(m) == \A i \in 1..Len(m.tasks) : m.tasks[i].status = "COMPLETED"
SomeTaskInProgress(m) == \E i \in 1..Len(m.tasks) : m.tasks[i].status = "IN_PROGRESS"

\* C24: the status derived by Maintenance.updateStatus is COMPLETED if and
\* only if all tasks are COMPLETED, is IN_PROGRESS if not all tasks are
\* COMPLETED and at least one is IN_PROGRESS, and otherwise equals the status
\* the record had before, for every task list and every prior status.
C24_DerivedStatus ==
    call.fn = "updateStatus" =>
        /\ call.ret = "COMPLETED" <=> AllTasksCompleted(call.args)
        /\ (~AllTasksCompleted(call.args) /\ SomeTaskInProgress(call.args))
            => call.ret = "IN_PROGRESS"
        /\ (~AllTasksCompleted(call.args) /\ ~SomeTaskInProgress(call.args))
            => call.ret = call.args.status

\* the route's actual fields are populated
ActualsPopulated(route) ==
    /\ IsNum(route.actualDeparture)
    /\ IsNum(route.actualArrival)
    /\ IsNum(route.fuelConsumption.actual)

\* C25: getRouteAnalytics and the analytics it composes take as input only
\* routes that are COMPLETED and have actualDeparture, actualArrival and
\* fuelConsumption.actual populated; a COMPLETED route lacking one of them
\* (moved directly from PLANNED to COMPLETED) is not used.
C25_AnalyticsInputsEligible ==
    call.fn = "calculateAverageFuelEfficiency" =>
        \A i \in 1..Len(call.args) :
            /\ call.args[i].status = "COMPLETED"
            /\ ActualsPopulated(call.args[i])

\* C26: a route is created with status PLANNED, and once it is COMPLETED with
\* its actuals populated no later updateRouteStatus call changes its status,
\* actualDeparture, actualArrival or fuelConsumption.actual.
C26_CompletedRouteImmutable ==
    [][/\ Len(routes') > Len(routes) => routes'[Len(routes')].status = "PLANNED"
       /\ \A i \in 1..Len(routes) :
            (routes[i].status = "COMPLETED" /\ ActualsPopulated(routes[i])) =>
                /\ routes'[i].status = routes[i].status
                /\ routes'[i].actualDeparture = routes[i].actualDeparture
                /\ routes'[i].actualArrival = routes[i].actualArrival
                /\ routes'[i].fuelConsumption.actual = routes[i].fuelConsumption.actual]_vars

\* C27: the engine computations leave the snapshot they are given unchanged:
\* after predictNextMaintenance(ship) the ship's maintenanceHistory and routes
\* hold the same elements in the same order as before, and after
\* Maintenance.calculateTotalCost the record's stored fields are unchanged.
C27_SnapshotUnchanged ==
    /\ call.fn = "predictNextMaintenance" =>
        /\ call.after.maintenanceHistory = call.args.maintenanceHistory
        /\ call.after.routes = call.args.routes
    /\ call.fn = "calculateTotalCost" => call.after = call.args

C29_AddedTasksRecosted ==
    [][/\ \A i \in 1..Len(maint') :
            /\ IsNum(maint'[i].cost.estimated)
            /\ JsLe(Int2Num(1000), maint'[i].cost.estimated)
       /\ (PostMaintenanceTasks /\ lastResult'.ok) =>
            LET before == maint[lastResult'.id].tasks
                after == maint'[lastResult'.id].tasks
            IN  /\ maint'[lastResult'.id].cost.estimated
                        = estimateMaintenanceCost(Arr(after))
                /\ Len(after) >= Len(before)
                /\ SubSeq(after, 1, Len(before)) = before
                /\ \A j \in (Len(before) + 1)..Len(after) :
                        after[j].status = "PENDING"]_vars

\* two tasks were added to a record that had an oil change among its tasks
C29_Witness ==
    /\ lastResult.op = "addMaintenanceTasks"
    /\ lastResult.ok
    /\ Len(maint[lastResult.id].tasks) = 6
    /\ maint[lastResult.id].tasks[4].name = "Engine Oil Change"
    /\ maint[lastResult.id].tasks[6].name = "Deck Repair"
    /\ JsLt(Int2Num(1000), maint[lastResult.id].cost.estimated)

\* every scheduleMaintenance call has returned
AllReturned == \A c \in Callers : pending[c] = Idle

\* how often the id is in the list
TimesListed(history, id) ==
    Cardinality({i \in 1..Len(history) : history[i] = id})

\* C30: under any interleaving of scheduleMaintenance calls on the same
\* existing ship, once all calls have returned the ship's maintenanceHistory
\* holds the id of every record created, each exactly once, and the ship's
\* nextMaintenance is the date of one of those records.
C30_NoAppendLost ==
    [][((\E c \in Callers : ScheduleAppendBy(c)) /\ AllReturned') =>
        /\ \A id \in 1..Len(maint') : TimesListed(ship'.maintenanceHistory, id) = 1
        /\ \E id \in 1..Len(maint') : ship'.nextMaintenance = maint'[id].date]_vars

\* two calls overlapped: the record created second was appended first, and
\* the two records have different dates
C30_Witness ==
    /\ AllReturned
    /\ ship.exists
    /\ ship.maintenanceHistory = <<2, 1>>
    /\ maint[1].date # maint[2].date
    /\ ship.nextMaintenance = maint[1].date

====
